---- MODULE Spec2Model ----
(***************************************************************************)
(* Model of szxp/space (src/space.go): an HTTP object store that serves    *)
(* source assets and builds thumbnails on demand.  The state is the        *)
(* filesystem under SourceDir and ThumbnailDir, the Server's               *)
(* pendingThumbnails registry with its mutex, and the position of every    *)
(* request goroutine (openThumbnail, saveSource) and of every              *)
(* createThumbnail goroutine.                                              *)
(***************************************************************************)
EXTENDS Integers, Sequences, FiniteSets, TLC

\* ------------------------------------------------------------------ bounds

\* Number of thumbnail request goroutines (calls of openThumbnail).
MaxFetch == 2

\* Number of PUT request goroutines (calls of saveSource).
MaxPut == 1

\* Number of filesystem calls that may return an I/O error in one behaviour.
MaxFaults == 1

Fetches == 1..MaxFetch

Puts == 1..MaxPut

\* Number of concurrent PUT request goroutines of the source-store
\* specification.
MaxSourcePut == 2

\* Number of GET/HEAD /source/ request goroutines (calls of serveSource).
MaxGet == 2

SourcePuts == 1..MaxSourcePut

Gets == 1..MaxGet

\* ----------------------------------------------------------- string helpers
\* Go strings are modelled as sequences of one-character strings.

Digit(d) == CASE d = 0 -> "0" [] d = 1 -> "1" [] d = 2 -> "2" [] d = 3 -> "3"
              [] d = 4 -> "4" [] d = 5 -> "5" [] d = 6 -> "6" [] d = 7 -> "7"
              [] d = 8 -> "8" [] OTHER -> "9"

\* fmt's %d of an unsigned integer.
RECURSIVE Dec(_)
Dec(n) == IF n < 10 THEN <<Digit(n)>> ELSE Dec(n \div 10) \o <<Digit(n % 10)>>

\* strings.LastIndex(s, c) for a one-character c, 1-based; 0 when absent
\* (Go returns the 0-based index, -1 when absent).
LastIndex(s, c) ==
    LET hits == {i \in 1..Len(s) : s[i] = c}
    IN  IF hits = {} THEN 0 ELSE CHOOSE i \in hits : \A j \in hits : j <= i

\* strings.LastIndex(s, "@@"), 1-based position of its first character.
LastIndexAtAt(s) ==
    LET hits == {i \in 1..(Len(s) - 1) : s[i] = "@" /\ s[i + 1] = "@"}
    IN  IF hits = {} THEN 0 ELSE CHOOSE i \in hits : \A j \in hits : j <= i

\* path.Ext: the suffix beginning at the final dot of the final
\* slash-separated element; empty when there is no dot.
Ext(s) ==
    LET slash == LastIndex(s, "/")
        dot   == LastIndex(s, ".")
    IN  IF dot > slash THEN SubSeq(s, dot, Len(s)) ELSE <<>>

\* filepath.Dir of a cleaned path.
Dir(p) ==
    LET slash == LastIndex(p, "/")
    IN  IF slash = 0 THEN <<".">>
        ELSE IF slash = 1 THEN <<"/">> ELSE SubSeq(p, 1, slash - 1)

\* filepath.Join(dir, rel) for a cleaned dir and a cleaned relative path.
Join(dir, rel) == dir \o <<"/">> \o rel

\* -------------------------------------------------------------- configuration

SourceDir == <<"s">>

ThumbnailDir == <<"t">>

ResizeModeFit == 1

ResizeModeCover == 2

ResizeModeStretch == 3

\* The keys requests carry (already accepted by validateKey).
Keys == { <<"a", ".", "j">>, <<"d", "/", "b", ".", "j">> }

\* The (width, height) pairs of AllowedThumbnailSizes.
Sizes == { <<1, 0>>, <<2, 3>> }

Modes == { ResizeModeCover }

\* The request bodies a PUT may carry.
Bodies == { "B1", "B2" }

\* type thumbnail struct.
Thumbs == [Key : Keys, Width : {s[1] : s \in Sizes}, Height : {s[2] : s \in Sizes},
           Mode : Modes]

ValidThumbs == {th \in Thumbs : <<th.Width, th.Height>> \in Sizes}

NoThumb == [Key |-> <<>>, Width |-> 0, Height |-> 0, Mode |-> 0]

\* Mutant of RelPath: the numbers are written without the "-w", "-h", "-m"
\* separators.
RelPathNoSeparators(th) ==
    LET dot == LastIndex(th.Key, ".")
    IN  SubSeq(th.Key, 1, dot - 1)
          \o Dec(th.Width) \o Dec(th.Height) \o Dec(th.Mode)
          \o SubSeq(th.Key, dot, Len(th.Key))

\* (th *thumbnail) RelPath.
RelPath(th) ==
    LET dot == LastIndex(th.Key, ".")
    IN  SubSeq(th.Key, 1, dot - 1)
          \o <<"-", "w">> \o Dec(th.Width)
          \o <<"-", "h">> \o Dec(th.Height)
          \o <<"-", "m">> \o Dec(th.Mode)
          \o SubSeq(th.Key, dot, Len(th.Key))

\* keyFilepath: filepath.FromSlash is the identity where the separator is '/'.
keyFilepath(key) == key

\* (s *Server) thumbnailPath.
thumbnailPath(key) == Join(ThumbnailDir, keyFilepath(key))

\* (s *Server) sourcePath.
sourcePath(key) ==
    LET i == LastIndexAtAt(key)
    IN  IF i # 0
        THEN Join(SourceDir, keyFilepath(SubSeq(key, 1, i - 1) \o Ext(key)))
        ELSE Join(SourceDir, keyFilepath(key))

\* Mutant of VariantPath: the path is derived from the key alone, without
\* width, height and mode.
VariantPathKeyOnly(th) == thumbnailPath(th.Key)

\* The path openThumbnail computes for a request.
VariantPath(th) == thumbnailPath(RelPath(th))

\* The name os.CreateTemp(dir, "tmp") returns to createThumbnail goroutine b:
\* a fresh name in dir, unique per call.
TmpPath(th, b) == Join(Dir(VariantPath(th)), <<"t", "m", "p">> \o Dec(b))

\* ------------------------------------------------------------------- values

\* error values: Nil is Go's nil error; ENOENT satisfies os.IsNotExist.
Nil == "nil"

ENOENT == "ENOENT"

EEXIST == "EEXIST"

EIO == "EIO"

EResize == "Failed to create thumbnail"

\* File contents.  Absent: no file at the path.
Absent == [kind |-> "absent"]

\* The empty file os.CreateTemp leaves behind.
EmptyFile == [kind |-> "empty"]

\* A source asset holding (a prefix of) a PUT body.
SourceData(body, complete) == [kind |-> "src", body |-> body, complete |-> complete]

\* What the resizer writes to dst for (src, width, height, mode): data is the
\* content it read at src.
ImageData(src, data, th, complete) ==
    [kind |-> "img", src |-> src, data |-> data, width |-> th.Width,
     height |-> th.Height, mode |-> th.Mode, complete |-> complete]

SourcePaths == {sourcePath(k) : k \in Keys}

VariantPaths == {VariantPath(th) : th \in ValidThumbs}

TmpPaths == {TmpPath(th, b) : th \in ValidThumbs, b \in Fetches}

AllPaths == SourcePaths \cup VariantPaths \cup TmpPaths

\* A channel of type chan error with capacity 1.
NoChan == [made |-> FALSE, buf |-> <<>>, closed |-> FALSE]

MakeChan == [made |-> TRUE, buf |-> <<>>, closed |-> FALSE]

ChanCap == 1

\* The result of openThumbnail: (*os.File, error); file is the content the
\* returned handle reads.
NoResult == [err |-> "pending", file |-> Absent]

NoHolder == <<>>

\* A thumbnail request before serveThumbnail has read it.
NoRequest == [path |-> <<>>, w |-> <<>>, h |-> <<>>, m |-> <<>>]

\* A /source/ request before sourceHandler has read it.
NoSourceRequest == [method |-> "none", key |-> <<>>]

\* The response of a request not yet answered.
NoResponse == [status |-> 0, body |-> Absent]

NoCall == [fn |-> "none"]

\* The Host headers requests carry.
Hosts == {"h1", "h2"}

\* A request ServeHTTP has not read yet.
NoHostRequest == [host |-> "none", path |-> <<>>]

\* A ServerConfig.AllowedHosts that lists the host the clients name.
ServedHosts == {"h1"}

\* The AllowedHosts of the ServerConfig cmd/space/main.go builds: the field
\* is not set, so the slice is nil.
MainAllowedHosts == {}

\* The requests that reach ServeHTTP: those the mux routes to
\* thumbnailHandler, one per openThumbnail goroutine, and those it routes to
\* sourceHandler, one per saveSource goroutine.
HostRequests ==
    {<<"/thumbnail/", f>> : f \in Fetches} \cup {<<"/source/", p>> : p \in Puts}

NoReturn == [fn |-> "none"]

\* ------------------------------------------------- validateKey / parseThumbnail

\* The characters keyRE admits: [a-zA-Z0-9./-].
KeyChars ==
    {"a", "b", "c", "d", "e", "f", "g", "h", "i", "j", "k", "l", "m", "n", "o", "p",
     "q", "r", "s", "t", "u", "v", "w", "x", "y", "z",
     "A", "B", "C", "D", "E", "F", "G", "H", "I", "J", "K", "L", "M", "N", "O", "P",
     "Q", "R", "S", "T", "U", "V", "W", "X", "Y", "Z",
     "0", "1", "2", "3", "4", "5", "6", "7", "8", "9", ".", "/", "-"}

\* keyRE.Match: ^[a-zA-Z0-9./-]+$.
keyREMatch(key) == key # <<>> /\ \A i \in 1..Len(key) : key[i] \in KeyChars

\* strings.Index(s, sub), 1-based; 0 when absent.
Index(s, sub) ==
    LET hits == {i \in 1..(Len(s) - Len(sub) + 1) :
                    SubSeq(s, i, i + Len(sub) - 1) = sub}
    IN  IF hits = {} THEN 0 ELSE CHOOSE i \in hits : \A j \in hits : i <= j

\* strings.Contains(s, sub).
Contains(s, sub) == Index(s, sub) # 0

\* strings.Split(s, "/").
RECURSIVE SplitSlash(_)
SplitSlash(s) ==
    LET i == Index(s, <<"/">>)
    IN  IF i = 0 THEN <<s>>
        ELSE <<SubSeq(s, 1, i - 1)>> \o SplitSlash(SubSeq(s, i + 1, Len(s)))

\* strings.Join(elems, "/").
RECURSIVE JoinSlash(_)
JoinSlash(elems) ==
    IF elems = <<>> THEN <<>>
    ELSE IF Len(elems) = 1 THEN elems[1]
    ELSE elems[1] \o <<"/">> \o JoinSlash(Tail(elems))

\* The elements path.Clean keeps, in order: empty and "." elements are
\* dropped, ".." removes the element before it, or is dropped at the root,
\* or is kept when nothing precedes it in a relative path.
RECURSIVE CleanElems(_, _, _)
CleanElems(elems, kept, rooted) ==
    IF elems = <<>> THEN kept
    ELSE LET e == Head(elems)
         IN  IF e = <<>> \/ e = <<".">>
             THEN CleanElems(Tail(elems), kept, rooted)
             ELSE IF e = <<".", ".">>
             THEN IF kept # <<>> /\ kept[Len(kept)] # <<".", ".">>
                  THEN CleanElems(Tail(elems), SubSeq(kept, 1, Len(kept) - 1), rooted)
                  ELSE IF rooted
                  THEN CleanElems(Tail(elems), kept, rooted)
                  ELSE CleanElems(Tail(elems), Append(kept, e), rooted)
             ELSE CleanElems(Tail(elems), Append(kept, e), rooted)

\* Mutant of Clean: the key is not normalized.
CleanSkipped(s) == s

\* path.Clean.
Clean(s) ==
    IF s = <<>> THEN <<".">>
    ELSE LET rooted == s[1] = "/"
             body   == JoinSlash(CleanElems(SplitSlash(s), <<>>, rooted))
             out    == IF rooted THEN <<"/">> \o body ELSE body
         IN  IF out = <<>> THEN <<".">> ELSE out

\* The errors of validateKey and parseThumbnail.
EInvalidKey == "invalid key"

ENoExt == "no ext"

EInvalidExt == "invalid ext"

EParseUint == "strconv.ParseUint: invalid syntax"

EInvalidMode == "invalid mode"

EInvalidSize == "invalid size"

\* (s *Server) validateKey with s.conf.AllowedExts = exts: nil or the error.
validateKey(exts, key) ==
    IF ~keyREMatch(key) THEN EInvalidKey
    ELSE LET cleaned == Clean(key)
         IN  IF \/ cleaned # key
                \/ cleaned = <<".">>
                \/ cleaned[1] = "/"
                \/ Contains(cleaned, <<".", ".">>)
             THEN EInvalidKey
             ELSE IF Ext(cleaned) = <<>> THEN ENoExt
             ELSE IF Ext(cleaned) \notin exts THEN EInvalidExt
             ELSE Nil

\* strconv.ParseUint(s, 10, 64) returns no error: s is a non-empty string
\* of decimal digits (the strings of the model are too short to overflow 64
\* bits).
ParseUintOk(s) ==
    s # <<>> /\ \A i \in 1..Len(s) : \E d \in 0..9 : s[i] = Digit(d)

\* The value strconv.ParseUint(s, 10, 64) returns for a string of digits.
RECURSIVE ParseUintVal(_)
ParseUintVal(s) ==
    IF s = <<>> THEN 0
    ELSE 10 * ParseUintVal(SubSeq(s, 1, Len(s) - 1))
           + (CHOOSE d \in 0..9 : s[Len(s)] = Digit(d))

\* removePrefix: strings.Replace(url, prefix, "", 1).
removePrefix(url, prefix) ==
    LET i == Index(url, prefix)
    IN  IF i = 0 THEN url
        ELSE SubSeq(url, 1, i - 1) \o SubSeq(url, i + Len(prefix), Len(url))

\* The pattern NewServer routes to thumbnailHandler.
ThumbnailPrefix == <<"/", "t", "h", "u", "m", "b", "n", "a", "i", "l", "/">>

\* (ts *ThumbnailSizes) IsValid.
IsValid(sizes, w, h) == <<w, h>> \in sizes

\* The th.Mode parseThumbnail's switch leaves for an accepted m: the zero
\* value of int8 when m is omitted.
ModeOf(m) ==
    IF m = <<"1">> THEN ResizeModeFit
    ELSE IF m = <<"2">> THEN ResizeModeCover
    ELSE IF m = <<"3">> THEN ResizeModeStretch
    ELSE 0

\* Mutant of SizeRejected: no size is held against the allow-list.
SizeRejectedNever(conf, width, height) == FALSE

\* parseThumbnail's size test: only a request that names a width or a
\* height is held against AllowedThumbnailSizes.
SizeRejected(conf, width, height) ==
    (width # 0 \/ height # 0) /\ ~IsValid(conf.AllowedThumbnailSizes, width, height)

\* (s *Server) parseThumbnail with s.conf = conf, for the request r (URL path
\* and the query parameters w, h, m; an absent parameter is the empty
\* string, as url.Values.Get returns it): the *thumbnail and the error.
parseThumbnail(conf, r) ==
    LET key    == removePrefix(r.path, ThumbnailPrefix)
        width  == IF r.w # <<>> THEN ParseUintVal(r.w) ELSE 0
        height == IF r.h # <<>> THEN ParseUintVal(r.h) ELSE 0
    IN  IF validateKey(conf.AllowedExts, key) # Nil
        THEN [th |-> NoThumb, err |-> validateKey(conf.AllowedExts, key)]
        ELSE IF r.w # <<>> /\ ~ParseUintOk(r.w)
        THEN [th |-> NoThumb, err |-> EParseUint]
        ELSE IF r.h # <<>> /\ ~ParseUintOk(r.h)
        THEN [th |-> NoThumb, err |-> EParseUint]
        ELSE IF r.m # <<>> /\ r.m \notin {<<"1">>, <<"2">>, <<"3">>}
        THEN [th |-> NoThumb, err |-> EInvalidMode]
        ELSE IF SizeRejected(conf, width, height)
        THEN [th |-> NoThumb, err |-> EInvalidSize]
        ELSE [th |-> [Key |-> key,
                      Width |-> IF width = 0 /\ height = 0
                                THEN conf.DefaultThumbnailWidth ELSE width,
                      Height |-> height,
                      Mode |-> ModeOf(r.m)],
              err |-> Nil]

\* -------------------------------------------------------------------- state

VARIABLES
    fs,                 \* [AllPaths -> content]: the files under SourceDir and ThumbnailDir
    dirs,               \* the directories MkdirAll has created
    pendingThumbnails,  \* Server.pendingThumbnails: [Keys -> Seq(channel owner)]
    thumbnailMutex,     \* Server.thumbnailMutex: NoHolder or the goroutine holding it
    fpc,                \* [Fetches -> position in serveThumbnail/openThumbnail]
    fth,                \* [Fetches -> the *thumbnail of the request]
    ch,                 \* [Fetches -> the channel ch the request made]
    fres,               \* [Fetches -> what openThumbnail returned]
    early,              \* [Fetches -> the request arrived before any broadcast]
    fstatus,            \* [Fetches -> the HTTP status serveThumbnail wrote, 0: none yet]
    bpc,                \* [Fetches -> position of the createThumbnail goroutine it started]
    berr,               \* [Fetches -> the err createThumbnail passes to sendThumbnailResult]
    bdefer,             \* [Fetches -> the deferred os.Remove(tmpPath) is registered]
    ppc,                \* [Puts -> position in saveSource/writeFile]
    pkey,               \* [Puts -> the key of the PUT]
    pbody,              \* [Puts -> the request body]
    pres,               \* [Puts -> the HTTP status written]
    faults,             \* filesystem calls that returned an I/O error so far
    broadcasts,         \* completed sendThumbnailResult calls so far
    resizeCalls,        \* [ValidThumbs -> invocations of ImageResizer.Resize]
    resizeFails,        \* [ValidThumbs -> invocations that returned an error]
    crashed,            \* a goroutine panicked or blocked forever inside the mutex
    freq,               \* [Fetches -> the request (path and query) serveThumbnail parsed]
    gpc,                \* [Gets -> position in serveSource]
    greq,               \* [Gets -> the method and key of the GET or HEAD of /source/]
    gres,               \* [Gets -> the HTTP status and body written]
    call,               \* the arguments of the function call under check
    ret,                \* what the call returned
    allowedHosts,       \* ServerConfig.AllowedHosts
    hpc,                \* [HostRequests -> position in ServeHTTP]
    hreq,               \* [HostRequests -> the Host header and URL path of the request]
    hres                \* [HostRequests -> the HTTP status ServeHTTP itself wrote]

vars == <<fs, dirs, pendingThumbnails, thumbnailMutex, fpc, fth, ch, fres, early,
          fstatus, bpc, berr, bdefer, ppc, pkey, pbody, pres, faults, broadcasts,
          resizeCalls, resizeFails, crashed, freq, gpc, greq, gres, call, ret,
          allowedHosts, hpc, hreq, hres>>

sourceVars == <<gpc, greq, gres>>

callVars == <<call, ret>>

hostVars == <<allowedHosts, hpc, hreq, hres>>

fetchVars == <<fpc, fth, ch, fres, early, fstatus>>

buildVars == <<bpc, berr, bdefer>>

putVars == <<ppc, pkey, pbody, pres>>

logVars == <<broadcasts, resizeCalls, resizeFails>>

\* The Server NewServer returns over empty directories, no request in
\* progress.
ServerInit ==
    /\ fs = [p \in AllPaths |-> Absent]
    /\ dirs = {}
    /\ pendingThumbnails = [k \in Keys |-> <<>>]
    /\ thumbnailMutex = NoHolder
    /\ fpc = [f \in Fetches |-> "idle"]
    /\ fth = [f \in Fetches |-> NoThumb]
    /\ ch = [f \in Fetches |-> NoChan]
    /\ fres = [f \in Fetches |-> NoResult]
    /\ early = [f \in Fetches |-> FALSE]
    /\ fstatus = [f \in Fetches |-> 0]
    /\ bpc = [f \in Fetches |-> "none"]
    /\ berr = [f \in Fetches |-> Nil]
    /\ bdefer = [f \in Fetches |-> FALSE]
    /\ ppc = [p \in Puts |-> "idle"]
    /\ pkey = [p \in Puts |-> <<>>]
    /\ pbody = [p \in Puts |-> "none"]
    /\ pres = [p \in Puts |-> 0]
    /\ faults = 0
    /\ broadcasts = 0
    /\ resizeCalls = [th \in ValidThumbs |-> 0]
    /\ resizeFails = [th \in ValidThumbs |-> 0]
    /\ crashed = FALSE
    /\ freq = [f \in Fetches |-> NoRequest]
    /\ gpc = [g \in Gets |-> "idle"]
    /\ greq = [g \in Gets |-> NoSourceRequest]
    /\ gres = [g \in Gets |-> NoResponse]
    /\ allowedHosts = ServedHosts
    /\ hpc = [h \in HostRequests |-> "idle"]
    /\ hreq = [h \in HostRequests |-> NoHostRequest]
    /\ hres = [h \in HostRequests |-> 0]

Init ==
    /\ ServerInit
    /\ call = NoCall
    /\ ret = NoReturn


\* A filesystem call may fail with an I/O error (at most MaxFaults times).
CanFault == faults < MaxFaults

\* ------------------------------------------------- serveThumbnail / openThumbnail

\* A GET /thumbnail/<key>?w=&h=&m= arrives and parseThumbnail accepts it as
\* th; requests are numbered in their order of arrival.
ServeThumbnail(f) ==
    /\ ~crashed
    /\ fpc[f] = "idle"
    /\ \A g \in Fetches : g < f => fpc[g] # "idle"
    /\ \E th \in ValidThumbs : fth' = [fth EXCEPT ![f] = th]
    /\ fpc' = [fpc EXCEPT ![f] = "open"]
    /\ early' = [early EXCEPT ![f] = (broadcasts = 0)]
    /\ UNCHANGED <<fs, dirs, pendingThumbnails, thumbnailMutex, ch, fres, faults,
                   crashed>>
    /\ UNCHANGED <<buildVars, putVars, logVars>>
    /\ UNCHANGED <<freq, sourceVars, callVars, hostVars>>
    /\ UNCHANGED fstatus

\* Mutant of OpenFirst: a hit does not return but goes on to the registry
\* like a miss.
OpenFirstHitRegisters(f) ==
    /\ ~crashed
    /\ fpc[f] = "open"
    /\ \/ /\ fpc' = [fpc EXCEPT ![f] = "lock"]
          /\ UNCHANGED <<fres, faults>>
       \/ /\ CanFault
          /\ faults' = faults + 1
          /\ fres' = [fres EXCEPT ![f] = [err |-> EIO, file |-> Absent]]
          /\ fpc' = [fpc EXCEPT ![f] = "done"]
    /\ UNCHANGED <<fs, dirs, pendingThumbnails, thumbnailMutex, fth, ch, early, crashed>>
    /\ UNCHANGED <<buildVars, putVars, logVars>>
    /\ UNCHANGED <<freq, sourceVars, callVars, hostVars>>
    /\ UNCHANGED fstatus

\* openThumbnail, the first os.Open(path): a hit or an error other than
\* not-exist returns at once; not-exist goes on to the registry.
OpenFirst(f) ==
    /\ ~crashed
    /\ fpc[f] = "open"
    /\ \/ /\ fs[VariantPath(fth[f])] # Absent
          /\ fres' = [fres EXCEPT ![f] = [err |-> Nil, file |-> fs[VariantPath(fth[f])]]]
          /\ fpc' = [fpc EXCEPT ![f] = "done"]
          /\ UNCHANGED faults
       \/ /\ fs[VariantPath(fth[f])] = Absent
          /\ fpc' = [fpc EXCEPT ![f] = "lock"]
          /\ UNCHANGED <<fres, faults>>
       \/ /\ CanFault
          /\ faults' = faults + 1
          /\ fres' = [fres EXCEPT ![f] = [err |-> EIO, file |-> Absent]]
          /\ fpc' = [fpc EXCEPT ![f] = "done"]
    /\ UNCHANGED <<fs, dirs, pendingThumbnails, thumbnailMutex, fth, ch, early, crashed>>
    /\ UNCHANGED <<buildVars, putVars, logVars>>
    /\ UNCHANGED <<freq, sourceVars, callVars, hostVars>>
    /\ UNCHANGED fstatus

\* Mutant of OpenLock: the mutex is taken before the first os.Open(path), so
\* the open runs inside the critical section.
OpenLockBeforeOpen(f) ==
    /\ ~crashed
    /\ fpc[f] = "open"
    /\ thumbnailMutex = NoHolder
    /\ thumbnailMutex' = <<"openThumbnail", f>>
    /\ UNCHANGED <<fs, dirs, pendingThumbnails, fpc, fth, ch, fres, early, faults,
                   crashed>>
    /\ UNCHANGED <<buildVars, putVars, logVars>>
    /\ UNCHANGED <<freq, sourceVars, callVars, hostVars>>
    /\ UNCHANGED fstatus

\* openThumbnail: s.thumbnailMutex.Lock().
OpenLock(f) ==
    /\ ~crashed
    /\ fpc[f] = "lock"
    /\ thumbnailMutex = NoHolder
    /\ thumbnailMutex' = <<"openThumbnail", f>>
    /\ fpc' = [fpc EXCEPT ![f] = "register"]
    /\ UNCHANGED <<fs, dirs, pendingThumbnails, fth, ch, fres, early, faults, crashed>>
    /\ UNCHANGED <<buildVars, putVars, logVars>>
    /\ UNCHANGED <<freq, sourceVars, callVars, hostVars>>
    /\ UNCHANGED fstatus

\* The key of pendingThumbnails a request registers under and a build
\* broadcasts to.
RegistryKey(th) == th.Key

\* Mutant of IsFirstWaiter: every request that registers starts a build.
IsFirstWaiterAlways(list) == TRUE

\* Mutant of IsFirstWaiter: the test is off by one, so the second waiter
\* starts a build too.
IsFirstWaiterOffByOne(list) == Len(list) <= 2

\* len(s.pendingThumbnails[th.Key]) == 1: the request starts the build.
IsFirstWaiter(list) == Len(list) = 1

\* openThumbnail's critical section: make the channel, append it, start
\* createThumbnail when the list has one entry, unlock.
OpenRegister(f) ==
    /\ ~crashed
    /\ fpc[f] = "register"
    /\ thumbnailMutex = <<"openThumbnail", f>>
    /\ ch' = [ch EXCEPT ![f] = MakeChan]
    /\ pendingThumbnails' =
          [pendingThumbnails EXCEPT ![RegistryKey(fth[f])] = Append(@, f)]
    /\ bpc' = [bpc EXCEPT ![f] =
                  IF IsFirstWaiter(pendingThumbnails'[RegistryKey(fth[f])])
                  THEN "stat" ELSE "none"]
    /\ thumbnailMutex' = NoHolder
    /\ fpc' = [fpc EXCEPT ![f] = "wait"]
    /\ UNCHANGED <<fs, dirs, fth, fres, early, berr, bdefer, faults, crashed>>
    /\ UNCHANGED <<putVars, logVars>>
    /\ UNCHANGED <<freq, sourceVars, callVars, hostVars>>
    /\ UNCHANGED fstatus

\* The value err = <-ch yields: the buffered error, or nil from a closed
\* empty channel.
ChanRecv(c) == IF c.buf # <<>> THEN Head(c.buf) ELSE Nil

\* openThumbnail: err = <-ch; a non-nil error is returned, nil goes on to
\* the second os.Open(path).
OpenRecv(f) ==
    /\ ~crashed
    /\ fpc[f] = "wait"
    /\ ch[f].buf # <<>> \/ ch[f].closed
    /\ IF ChanRecv(ch[f]) # Nil
       THEN /\ fres' = [fres EXCEPT ![f] = [err |-> ChanRecv(ch[f]), file |-> Absent]]
            /\ fpc' = [fpc EXCEPT ![f] = "done"]
       ELSE /\ fpc' = [fpc EXCEPT ![f] = "reopen"]
            /\ UNCHANGED fres
    /\ ch' = [ch EXCEPT ![f].buf = IF @ # <<>> THEN Tail(@) ELSE @]
    /\ UNCHANGED <<fs, dirs, pendingThumbnails, thumbnailMutex, fth, early, faults,
                   crashed>>
    /\ UNCHANGED <<buildVars, putVars, logVars>>
    /\ UNCHANGED <<freq, sourceVars, callVars, hostVars>>
    /\ UNCHANGED fstatus

\* openThumbnail: return os.Open(path), after the build reported success.
OpenSecond(f) ==
    /\ ~crashed
    /\ fpc[f] = "reopen"
    /\ \/ /\ fs[VariantPath(fth[f])] # Absent
          /\ fres' = [fres EXCEPT ![f] = [err |-> Nil, file |-> fs[VariantPath(fth[f])]]]
          /\ UNCHANGED faults
       \/ /\ fs[VariantPath(fth[f])] = Absent
          /\ fres' = [fres EXCEPT ![f] = [err |-> ENOENT, file |-> Absent]]
          /\ UNCHANGED faults
       \/ /\ CanFault
          /\ faults' = faults + 1
          /\ fres' = [fres EXCEPT ![f] = [err |-> EIO, file |-> Absent]]
    /\ fpc' = [fpc EXCEPT ![f] = "done"]
    /\ UNCHANGED <<fs, dirs, pendingThumbnails, thumbnailMutex, fth, ch, early, crashed>>
    /\ UNCHANGED <<buildVars, putVars, logVars>>
    /\ UNCHANGED <<freq, sourceVars, callVars, hostVars>>
    /\ UNCHANGED fstatus

\* Mutant of ThumbnailStatus: a not-exist error is answered like any other
\* error.
ThumbnailStatusNotFoundAsError(res, statErr) ==
    IF res.err # Nil THEN 500 ELSE IF statErr # Nil THEN 500 ELSE 200

\* The status serveThumbnail writes after openThumbnail returned res: 500
\* for an error other than not-exist, 404 for not-exist; with a file, 500
\* when f.Stat() returns the error statErr and 200 otherwise.
ThumbnailStatus(res, statErr) ==
    IF res.err # Nil /\ res.err # ENOENT THEN 500
    ELSE IF res.err = ENOENT THEN 404
    ELSE IF statErr # Nil THEN 500
    ELSE 200

\* serveThumbnail after openThumbnail has returned: the answer to an error,
\* or f.Stat() and then the headers (HEAD) or http.ServeContent (GET).
ServeThumbnailFile(f) ==
    /\ ~crashed
    /\ fpc[f] = "done"
    /\ \/ /\ fres[f].err = Nil
          /\ CanFault
          /\ faults' = faults + 1
          /\ fstatus' = [fstatus EXCEPT ![f] = ThumbnailStatus(fres[f], EIO)]
       \/ /\ fstatus' = [fstatus EXCEPT ![f] = ThumbnailStatus(fres[f], Nil)]
          /\ UNCHANGED faults
    /\ fpc' = [fpc EXCEPT ![f] = "answered"]
    /\ UNCHANGED <<fs, dirs, pendingThumbnails, thumbnailMutex, fth, ch, fres, early,
                   crashed>>
    /\ UNCHANGED <<buildVars, putVars, logVars>>
    /\ UNCHANGED <<freq, sourceVars, callVars, hostVars>>

\* ------------------------------------------------------------ createThumbnail
\* Goroutine b is the createThumbnail(th, path) that request b started with
\* its own th and path.

\* Mutant of StatThumbnail: createThumbnail does not look for the file first.
StatThumbnailSkipped(path) == FALSE

\* err == nil of the first os.Stat(path): the thumbnail is already there.
StatThumbnail(path) == fs[path] # Absent

\* createThumbnail: os.Stat(path); present or an error other than not-exist
\* is broadcast at once.
CreateStat(b) ==
    /\ ~crashed
    /\ bpc[b] = "stat"
    /\ \/ /\ CanFault
          /\ faults' = faults + 1
          /\ berr' = [berr EXCEPT ![b] = EIO]
          /\ bpc' = [bpc EXCEPT ![b] = "sendlock"]
       \/ /\ StatThumbnail(VariantPath(fth[b]))
          /\ berr' = [berr EXCEPT ![b] = Nil]
          /\ bpc' = [bpc EXCEPT ![b] = "sendlock"]
          /\ UNCHANGED faults
       \/ /\ ~StatThumbnail(VariantPath(fth[b]))
          /\ bpc' = [bpc EXCEPT ![b] = "statsrc"]
          /\ UNCHANGED <<berr, faults>>
    /\ UNCHANGED <<fs, dirs, pendingThumbnails, thumbnailMutex, bdefer, crashed>>
    /\ UNCHANGED <<fetchVars, putVars, logVars>>
    /\ UNCHANGED <<freq, sourceVars, callVars, hostVars>>

\* createThumbnail: os.Stat(src); any error is broadcast.
CreateStatSource(b) ==
    /\ ~crashed
    /\ bpc[b] = "statsrc"
    /\ \/ /\ CanFault
          /\ faults' = faults + 1
          /\ berr' = [berr EXCEPT ![b] = EIO]
          /\ bpc' = [bpc EXCEPT ![b] = "sendlock"]
       \/ /\ fs[sourcePath(fth[b].Key)] = Absent
          /\ berr' = [berr EXCEPT ![b] = ENOENT]
          /\ bpc' = [bpc EXCEPT ![b] = "sendlock"]
          /\ UNCHANGED faults
       \/ /\ fs[sourcePath(fth[b].Key)] # Absent
          /\ bpc' = [bpc EXCEPT ![b] = "mkdir"]
          /\ UNCHANGED <<berr, faults>>
    /\ UNCHANGED <<fs, dirs, pendingThumbnails, thumbnailMutex, bdefer, crashed>>
    /\ UNCHANGED <<fetchVars, putVars, logVars>>
    /\ UNCHANGED <<freq, sourceVars, callVars, hostVars>>

\* createThumbnail: os.MkdirAll(filepath.Dir(path)).
CreateMkdir(b) ==
    /\ ~crashed
    /\ bpc[b] = "mkdir"
    /\ \/ /\ CanFault
          /\ faults' = faults + 1
          /\ berr' = [berr EXCEPT ![b] = EIO]
          /\ bpc' = [bpc EXCEPT ![b] = "sendlock"]
          /\ UNCHANGED dirs
       \/ /\ dirs' = dirs \cup {Dir(VariantPath(fth[b]))}
          /\ bpc' = [bpc EXCEPT ![b] = "mktemp"]
          /\ UNCHANGED <<berr, faults>>
    /\ UNCHANGED <<fs, pendingThumbnails, thumbnailMutex, bdefer, crashed>>
    /\ UNCHANGED <<fetchVars, putVars, logVars>>
    /\ UNCHANGED <<freq, sourceVars, callVars, hostVars>>

\* createThumbnail: os.CreateTemp(filepath.Dir(path), "tmp"), the deferred
\* os.Remove(tmpPath), tmpf.Close().
CreateTemp(b) ==
    /\ ~crashed
    /\ bpc[b] = "mktemp"
    /\ \/ /\ CanFault
          /\ faults' = faults + 1
          /\ berr' = [berr EXCEPT ![b] = EIO]
          /\ bpc' = [bpc EXCEPT ![b] = "sendlock"]
          /\ UNCHANGED <<fs, bdefer>>
       \/ /\ fs' = [fs EXCEPT ![TmpPath(fth[b], b)] = EmptyFile]
          /\ bdefer' = [bdefer EXCEPT ![b] = TRUE]
          /\ bpc' = [bpc EXCEPT ![b] = "resize"]
          /\ UNCHANGED <<berr, faults>>
    /\ UNCHANGED <<dirs, pendingThumbnails, thumbnailMutex, crashed>>
    /\ UNCHANGED <<fetchVars, putVars, logVars>>
    /\ UNCHANGED <<freq, sourceVars, callVars, hostVars>>

\* Mutant of ResizeDst: the resizer is handed the final path.
ResizeDstInPlace(th, b) == VariantPath(th)

\* The dst createThumbnail hands to ImageResizer.Resize: tmpPath.
ResizeDst(th, b) == TmpPath(th, b)

\* ImageResizer.Resize(tmpPath, src, th.Width, th.Height, th.Mode) is called:
\* the resizer reads src and starts writing dst.
ResizeBegin(b) ==
    /\ ~crashed
    /\ bpc[b] = "resize"
    /\ resizeCalls' = [resizeCalls EXCEPT ![fth[b]] = @ + 1]
    /\ fs' = [fs EXCEPT ![ResizeDst(fth[b], b)] =
                 ImageData(sourcePath(fth[b].Key), fs[sourcePath(fth[b].Key)],
                           fth[b], FALSE)]
    /\ bpc' = [bpc EXCEPT ![b] = "resizing"]
    /\ UNCHANGED <<dirs, pendingThumbnails, thumbnailMutex, berr, bdefer, faults,
                   broadcasts, resizeFails, crashed>>
    /\ UNCHANGED <<fetchVars, putVars>>
    /\ UNCHANGED <<freq, sourceVars, callVars, hostVars>>

\* Mutant of ResizeEnd: on a resizer error createThumbnail returns without
\* calling sendThumbnailResult.
ResizeEndNoBroadcast(b) ==
    /\ ~crashed
    /\ bpc[b] = "resizing"
    /\ \/ /\ fs' = [fs EXCEPT ![ResizeDst(fth[b], b)].complete = TRUE]
          /\ bpc' = [bpc EXCEPT ![b] = "rename"]
          /\ UNCHANGED <<berr, resizeFails>>
       \/ /\ resizeFails' = [resizeFails EXCEPT ![fth[b]] = @ + 1]
          /\ berr' = [berr EXCEPT ![b] = EResize]
          /\ bpc' = [bpc EXCEPT ![b] = "remove"]
          /\ UNCHANGED fs
    /\ UNCHANGED <<dirs, pendingThumbnails, thumbnailMutex, bdefer, faults, broadcasts,
                   resizeCalls, crashed>>
    /\ UNCHANGED <<fetchVars, putVars>>
    /\ UNCHANGED <<freq, sourceVars, callVars, hostVars>>

\* ImageResizer.Resize returns: nil with dst complete, or an error with dst
\* left as it is.
ResizeEnd(b) ==
    /\ ~crashed
    /\ bpc[b] = "resizing"
    /\ \/ /\ fs' = [fs EXCEPT ![ResizeDst(fth[b], b)].complete = TRUE]
          /\ bpc' = [bpc EXCEPT ![b] = "rename"]
          /\ UNCHANGED <<berr, resizeFails>>
       \/ /\ resizeFails' = [resizeFails EXCEPT ![fth[b]] = @ + 1]
          /\ berr' = [berr EXCEPT ![b] = EResize]
          /\ bpc' = [bpc EXCEPT ![b] = "sendlock"]
          /\ UNCHANGED fs
    /\ UNCHANGED <<dirs, pendingThumbnails, thumbnailMutex, bdefer, faults, broadcasts,
                   resizeCalls, crashed>>
    /\ UNCHANGED <<fetchVars, putVars>>
    /\ UNCHANGED <<freq, sourceVars, callVars, hostVars>>

\* createThumbnail: err = os.Rename(tmpPath, path), broadcast whatever it is.
CreateRename(b) ==
    /\ ~crashed
    /\ bpc[b] = "rename"
    /\ \/ /\ CanFault
          /\ faults' = faults + 1
          /\ berr' = [berr EXCEPT ![b] = EIO]
          /\ UNCHANGED fs
       \/ /\ fs' = [fs EXCEPT ![VariantPath(fth[b])] = fs[TmpPath(fth[b], b)],
                              ![TmpPath(fth[b], b)] = Absent]
          /\ berr' = [berr EXCEPT ![b] = Nil]
          /\ UNCHANGED faults
    /\ bpc' = [bpc EXCEPT ![b] = "sendlock"]
    /\ UNCHANGED <<dirs, pendingThumbnails, thumbnailMutex, bdefer, crashed>>
    /\ UNCHANGED <<fetchVars, putVars, logVars>>
    /\ UNCHANGED <<freq, sourceVars, callVars, hostVars>>

\* -------------------------------------------------------- sendThumbnailResult

\* sendThumbnailResult: s.thumbnailMutex.Lock().
SendLock(b) ==
    /\ ~crashed
    /\ bpc[b] = "sendlock"
    /\ thumbnailMutex = NoHolder
    /\ thumbnailMutex' = <<"sendThumbnailResult", b>>
    /\ bpc' = [bpc EXCEPT ![b] = "send"]
    /\ UNCHANGED <<fs, dirs, pendingThumbnails, berr, bdefer, faults, crashed>>
    /\ UNCHANGED <<fetchVars, putVars, logVars>>
    /\ UNCHANGED <<freq, sourceVars, callVars, hostVars>>

\* Mutant of SendTargets: only the first channel of the list is signaled.
SendTargetsHeadOnly(list) == SubSeq(list, 1, 1)

\* The channels the loop of sendThumbnailResult ranges over.
SendTargets(list) == list

\* Mutant of SendValue: the channels are closed without the error being sent.
SendValueDropped(err) == Nil

\* The value the loop puts on a channel before closing it: err when non-nil.
SendValue(err) == err

\* if err != nil { ch <- err }; close(ch).
Signal(c, err) ==
    [c EXCEPT !.buf = IF SendValue(err) # Nil THEN Append(@, SendValue(err)) ELSE @,
              !.closed = TRUE]

\* A send on a full channel blocks inside the mutex; a send on or a close of
\* a closed channel panics.
SignalFails(c, err) == c.closed \/ (SendValue(err) # Nil /\ Len(c.buf) >= ChanCap)

\* Mutant of ClearList: the list is left as it is after the broadcast.
ClearListKept(list) == list

\* s.pendingThumbnails[key] = s.pendingThumbnails[key][:0].
ClearList(list) == SubSeq(list, 1, 0)

\* sendThumbnailResult's critical section: signal every channel of the
\* list, truncate the list, unlock (deferred); then createThumbnail returns.
SendResult(b) ==
    /\ ~crashed
    /\ bpc[b] = "send"
    /\ thumbnailMutex = <<"sendThumbnailResult", b>>
    /\ LET key     == RegistryKey(fth[b])
           targets == SendTargets(pendingThumbnails[key])
           owners  == {targets[i] : i \in 1..Len(targets)}
       IN  IF \E g \in owners : SignalFails(ch[g], berr[b])
           THEN /\ crashed' = TRUE
                /\ bpc' = [bpc EXCEPT ![b] = "crashed"]
                /\ UNCHANGED <<ch, pendingThumbnails, thumbnailMutex, broadcasts>>
           ELSE /\ ch' = [g \in Fetches |->
                            IF g \in owners THEN Signal(ch[g], berr[b]) ELSE ch[g]]
                /\ pendingThumbnails' =
                      [pendingThumbnails EXCEPT ![key] = ClearList(@)]
                /\ thumbnailMutex' = NoHolder
                /\ broadcasts' = broadcasts + 1
                /\ bpc' = [bpc EXCEPT ![b] = IF bdefer[b] THEN "remove" ELSE "done"]
                /\ UNCHANGED crashed
    /\ UNCHANGED <<fs, dirs, fpc, fth, fres, early, berr, bdefer, faults, resizeCalls,
                   resizeFails>>
    /\ UNCHANGED putVars
    /\ UNCHANGED <<freq, sourceVars, callVars, hostVars>>
    /\ UNCHANGED fstatus

\* Mutant of RemoveTmp: createThumbnail returns without the deferred
\* os.Remove(tmpPath).
RemoveTmpSkipped(b) ==
    /\ ~crashed
    /\ bpc[b] = "remove"
    /\ bpc' = [bpc EXCEPT ![b] = "done"]
    /\ UNCHANGED <<fs, dirs, pendingThumbnails, thumbnailMutex, berr, bdefer, faults,
                   crashed>>
    /\ UNCHANGED <<fetchVars, putVars, logVars>>
    /\ UNCHANGED <<freq, sourceVars, callVars, hostVars>>

\* createThumbnail returns: the deferred os.Remove(tmpPath), its error ignored.
RemoveTmp(b) ==
    /\ ~crashed
    /\ bpc[b] = "remove"
    /\ \/ /\ CanFault
          /\ faults' = faults + 1
          /\ UNCHANGED fs
       \/ /\ fs' = [fs EXCEPT ![TmpPath(fth[b], b)] = Absent]
          /\ UNCHANGED faults
    /\ bpc' = [bpc EXCEPT ![b] = "done"]
    /\ UNCHANGED <<dirs, pendingThumbnails, thumbnailMutex, berr, bdefer, crashed>>
    /\ UNCHANGED <<fetchVars, putVars, logVars>>
    /\ UNCHANGED <<freq, sourceVars, callVars, hostVars>>

\* ------------------------------------------------------- saveSource / writeFile

\* A PUT /source/<key> arrives with a body; validateKey accepts the key.
SaveSource(p) ==
    /\ ~crashed
    /\ ppc[p] = "idle"
    /\ \A q \in DOMAIN ppc : q < p => ppc[q] # "idle"
    /\ \E k \in Keys, body \in Bodies :
          /\ pkey' = [pkey EXCEPT ![p] = k]
          /\ pbody' = [pbody EXCEPT ![p] = body]
    /\ ppc' = [ppc EXCEPT ![p] = "mkdir"]
    /\ UNCHANGED <<fs, dirs, pendingThumbnails, thumbnailMutex, pres, faults, crashed>>
    /\ UNCHANGED <<fetchVars, buildVars, logVars>>
    /\ UNCHANGED <<freq, sourceVars, callVars, hostVars>>

\* saveSource: os.MkdirAll(filepath.Dir(p)); an error answers 500.
SaveMkdir(p) ==
    /\ ~crashed
    /\ ppc[p] = "mkdir"
    /\ \/ /\ CanFault
          /\ faults' = faults + 1
          /\ pres' = [pres EXCEPT ![p] = 500]
          /\ ppc' = [ppc EXCEPT ![p] = "done"]
          /\ UNCHANGED dirs
       \/ /\ dirs' = dirs \cup {Dir(sourcePath(pkey[p]))}
          /\ ppc' = [ppc EXCEPT ![p] = "create"]
          /\ UNCHANGED <<pres, faults>>
    /\ UNCHANGED <<fs, pendingThumbnails, thumbnailMutex, pkey, pbody, crashed>>
    /\ UNCHANGED <<fetchVars, buildVars, logVars>>
    /\ UNCHANGED <<freq, sourceVars, callVars, hostVars>>

\* Mutant of WriteCreate: the file is opened with O_TRUNC in place of
\* O_EXCL, so an existing file is emptied and written again.
WriteCreateTruncate(p) ==
    /\ ~crashed
    /\ ppc[p] = "create"
    /\ \/ /\ CanFault
          /\ faults' = faults + 1
          /\ pres' = [pres EXCEPT ![p] = 500]
          /\ ppc' = [ppc EXCEPT ![p] = "done"]
          /\ UNCHANGED fs
       \/ /\ fs' = [fs EXCEPT ![sourcePath(pkey[p])] = SourceData(pbody[p], FALSE)]
          /\ ppc' = [ppc EXCEPT ![p] = "copy"]
          /\ UNCHANGED <<pres, faults>>
    /\ UNCHANGED <<dirs, pendingThumbnails, thumbnailMutex, pkey, pbody, crashed>>
    /\ UNCHANGED <<fetchVars, buildVars, logVars>>
    /\ UNCHANGED <<freq, sourceVars, callVars, hostVars>>

\* writeFile: os.OpenFile(path, O_WRONLY|O_CREATE|O_EXCL): fails when the
\* file exists, else creates it empty.
WriteCreate(p) ==
    /\ ~crashed
    /\ ppc[p] = "create"
    /\ \/ /\ CanFault
          /\ faults' = faults + 1
          /\ pres' = [pres EXCEPT ![p] = 500]
          /\ ppc' = [ppc EXCEPT ![p] = "done"]
          /\ UNCHANGED fs
       \/ /\ fs[sourcePath(pkey[p])] # Absent
          /\ pres' = [pres EXCEPT ![p] = 500]
          /\ ppc' = [ppc EXCEPT ![p] = "done"]
          /\ UNCHANGED <<fs, faults>>
       \/ /\ fs[sourcePath(pkey[p])] = Absent
          /\ fs' = [fs EXCEPT ![sourcePath(pkey[p])] = SourceData(pbody[p], FALSE)]
          /\ ppc' = [ppc EXCEPT ![p] = "copy"]
          /\ UNCHANGED <<pres, faults>>
    /\ UNCHANGED <<dirs, pendingThumbnails, thumbnailMutex, pkey, pbody, crashed>>
    /\ UNCHANGED <<fetchVars, buildVars, logVars>>
    /\ UNCHANGED <<freq, sourceVars, callVars, hostVars>>

\* Mutant of WriteCopy: a copy that fails part-way removes the file it
\* created.
WriteCopyCleansUp(p) ==
    /\ ~crashed
    /\ ppc[p] = "copy"
    /\ \/ /\ CanFault
          /\ faults' = faults + 1
          /\ pres' = [pres EXCEPT ![p] = 500]
          /\ fs' = [fs EXCEPT ![sourcePath(pkey[p])] = Absent]
       \/ /\ fs' = [fs EXCEPT ![sourcePath(pkey[p])] = SourceData(pbody[p], TRUE)]
          /\ pres' = [pres EXCEPT ![p] = 200]
          /\ UNCHANGED faults
    /\ ppc' = [ppc EXCEPT ![p] = "done"]
    /\ UNCHANGED <<dirs, pendingThumbnails, thumbnailMutex, pkey, pbody, crashed>>
    /\ UNCHANGED <<fetchVars, buildVars, logVars>>
    /\ UNCHANGED <<freq, sourceVars, callVars, hostVars>>

\* writeFile: io.Copy(f, r) and the deferred f.Close(); saveSource answers
\* 200, or 500 when the copy failed part-way.
WriteCopy(p) ==
    /\ ~crashed
    /\ ppc[p] = "copy"
    /\ \/ /\ CanFault
          /\ faults' = faults + 1
          /\ pres' = [pres EXCEPT ![p] = 500]
          /\ UNCHANGED fs
       \/ /\ fs' = [fs EXCEPT ![sourcePath(pkey[p])] = SourceData(pbody[p], TRUE)]
          /\ pres' = [pres EXCEPT ![p] = 200]
          /\ UNCHANGED faults
    /\ ppc' = [ppc EXCEPT ![p] = "done"]
    /\ UNCHANGED <<dirs, pendingThumbnails, thumbnailMutex, pkey, pbody, crashed>>
    /\ UNCHANGED <<fetchVars, buildVars, logVars>>
    /\ UNCHANGED <<freq, sourceVars, callVars, hostVars>>

\* ------------------------------------------------------------------ serveSource

\* The methods sourceHandler hands to serveSource.
ReadMethods == {"GET", "HEAD"}

\* A GET or HEAD of /source/<key> arrives; validateKey accepts the key.
ServeSource(g) ==
    /\ ~crashed
    /\ gpc[g] = "idle"
    /\ \A q \in Gets : q < g => gpc[q] # "idle"
    /\ \E method \in ReadMethods, k \in Keys :
          greq' = [greq EXCEPT ![g] = [method |-> method, key |-> k]]
    /\ gpc' = [gpc EXCEPT ![g] = "open"]
    /\ UNCHANGED <<fs, dirs, pendingThumbnails, thumbnailMutex, faults, crashed, gres>>
    /\ UNCHANGED <<fetchVars, buildVars, putVars, logVars, freq, callVars, hostVars>>

\* Mutant of SourceOpenStatus: a missing file is answered like any other
\* open error.
SourceOpenStatusAlwaysError(err) == 500

\* serveSource's answer to a failed os.Open(p): 404 when the file does not
\* exist, 500 otherwise.
SourceOpenStatus(err) == IF err = ENOENT THEN 404 ELSE 500

\* serveSource: f, err := os.Open(p).
SourceOpen(g) ==
    /\ ~crashed
    /\ gpc[g] = "open"
    /\ \/ /\ CanFault
          /\ faults' = faults + 1
          /\ gres' = [gres EXCEPT ![g] =
                        [status |-> SourceOpenStatus(EIO), body |-> Absent]]
          /\ gpc' = [gpc EXCEPT ![g] = "done"]
       \/ /\ fs[sourcePath(greq[g].key)] = Absent
          /\ gres' = [gres EXCEPT ![g] =
                        [status |-> SourceOpenStatus(ENOENT), body |-> Absent]]
          /\ gpc' = [gpc EXCEPT ![g] = "done"]
          /\ UNCHANGED faults
       \/ /\ fs[sourcePath(greq[g].key)] # Absent
          /\ gpc' = [gpc EXCEPT ![g] = "serve"]
          /\ UNCHANGED <<gres, faults>>
    /\ UNCHANGED <<fs, dirs, pendingThumbnails, thumbnailMutex, crashed, greq>>
    /\ UNCHANGED <<fetchVars, buildVars, putVars, logVars, freq, callVars, hostVars>>

\* serveSource: f.Stat(), then the headers alone for HEAD or
\* http.ServeContent, which copies what the file holds, for GET.
SourceServe(g) ==
    /\ ~crashed
    /\ gpc[g] = "serve"
    /\ \/ /\ CanFault
          /\ faults' = faults + 1
          /\ gres' = [gres EXCEPT ![g] = [status |-> 500, body |-> Absent]]
       \/ /\ gres' = [gres EXCEPT ![g] =
                        [status |-> 200,
                         body |-> IF greq[g].method = "HEAD" THEN Absent
                                  ELSE fs[sourcePath(greq[g].key)]]]
          /\ UNCHANGED faults
    /\ gpc' = [gpc EXCEPT ![g] = "done"]
    /\ UNCHANGED <<fs, dirs, pendingThumbnails, thumbnailMutex, crashed, greq>>
    /\ UNCHANGED <<fetchVars, buildVars, putVars, logVars, freq, callVars, hostVars>>

\* ------------------------------------------------------------- specification

Next ==
    \/ \E f \in Fetches : ServeThumbnail(f)
    \/ \E f \in Fetches : OpenFirst(f)
    \/ \E f \in Fetches : OpenLock(f)
    \/ \E f \in Fetches : OpenRegister(f)
    \/ \E f \in Fetches : OpenRecv(f)
    \/ \E f \in Fetches : OpenSecond(f)
    \/ \E f \in Fetches : ServeThumbnailFile(f)
    \/ \E b \in Fetches : CreateStat(b)
    \/ \E b \in Fetches : CreateStatSource(b)
    \/ \E b \in Fetches : CreateMkdir(b)
    \/ \E b \in Fetches : CreateTemp(b)
    \/ \E b \in Fetches : ResizeBegin(b)
    \/ \E b \in Fetches : ResizeEnd(b)
    \/ \E b \in Fetches : CreateRename(b)
    \/ \E b \in Fetches : SendLock(b)
    \/ \E b \in Fetches : SendResult(b)
    \/ \E b \in Fetches : RemoveTmp(b)
    \/ \E p \in Puts : SaveSource(p)
    \/ \E p \in Puts : SaveMkdir(p)
    \/ \E p \in Puts : WriteCreate(p)
    \/ \E p \in Puts : WriteCopy(p)

Spec == Init /\ [][Next]_vars

\* One step of request goroutine f inside openThumbnail or, after its
\* return, of serveThumbnail.
FetchStep(f) ==
    \/ OpenFirst(f) \/ OpenLock(f) \/ OpenRegister(f) \/ OpenRecv(f) \/ OpenSecond(f)
    \/ ServeThumbnailFile(f)

\* One step of the createThumbnail goroutine b.
BuildStep(b) ==
    \/ CreateStat(b) \/ CreateStatSource(b) \/ CreateMkdir(b) \/ CreateTemp(b)
    \/ ResizeBegin(b) \/ ResizeEnd(b) \/ CreateRename(b)
    \/ SendLock(b) \/ SendResult(b) \/ RemoveTmp(b)

\* The Go scheduler runs every runnable goroutine, and the resizer and the
\* filesystem calls return: a goroutine that can take a step takes one.
Fairness ==
    /\ \A f \in Fetches : WF_vars(FetchStep(f))
    /\ \A b \in Fetches : WF_vars(BuildStep(b))

FairSpec == Spec /\ Fairness

\* The key the requests of the fair specification ask for.
FairKey == <<"a", ".", "j">>

\* The server starts over a source store that an earlier run has filled: the
\* source of FairKey is absent or complete.
StoredInit ==
    /\ fs \in {g \in [AllPaths -> {Absent, SourceData("B1", TRUE)}] :
                 \A p \in AllPaths \ {sourcePath(FairKey)} : g[p] = Absent}
    /\ dirs = {Dir(p) : p \in {q \in SourcePaths : fs[q] # Absent}}
    /\ pendingThumbnails = [k \in Keys |-> <<>>]
    /\ thumbnailMutex = NoHolder
    /\ fpc = [f \in Fetches |-> "idle"]
    /\ fth = [f \in Fetches |-> NoThumb]
    /\ ch = [f \in Fetches |-> NoChan]
    /\ fres = [f \in Fetches |-> NoResult]
    /\ early = [f \in Fetches |-> FALSE]
    /\ fstatus = [f \in Fetches |-> 0]
    /\ bpc = [f \in Fetches |-> "none"]
    /\ berr = [f \in Fetches |-> Nil]
    /\ bdefer = [f \in Fetches |-> FALSE]
    /\ ppc = [p \in Puts |-> "idle"]
    /\ pkey = [p \in Puts |-> <<>>]
    /\ pbody = [p \in Puts |-> "none"]
    /\ pres = [p \in Puts |-> 0]
    /\ faults = 0
    /\ broadcasts = 0
    /\ resizeCalls = [th \in ValidThumbs |-> 0]
    /\ resizeFails = [th \in ValidThumbs |-> 0]
    /\ crashed = FALSE
    /\ freq = [f \in Fetches |-> NoRequest]
    /\ gpc = [g \in Gets |-> "idle"]
    /\ greq = [g \in Gets |-> NoSourceRequest]
    /\ gres = [g \in Gets |-> NoResponse]
    /\ allowedHosts = ServedHosts
    /\ hpc = [h \in HostRequests |-> "idle"]
    /\ hreq = [h \in HostRequests |-> NoHostRequest]
    /\ hres = [h \in HostRequests |-> 0]
    /\ call = NoCall
    /\ ret = NoReturn

\* The thumbnail requests for FairKey and their builds alone, no PUT arriving.
ThumbnailNext ==
    \/ \E f \in Fetches : ServeThumbnail(f) /\ fth'[f].Key = FairKey
    \/ \E f \in Fetches : OpenFirst(f)
    \/ \E f \in Fetches : OpenLock(f)
    \/ \E f \in Fetches : OpenRegister(f)
    \/ \E f \in Fetches : OpenRecv(f)
    \/ \E f \in Fetches : OpenSecond(f)
    \/ \E f \in Fetches : ServeThumbnailFile(f)
    \/ \E b \in Fetches : CreateStat(b)
    \/ \E b \in Fetches : CreateStatSource(b)
    \/ \E b \in Fetches : CreateMkdir(b)
    \/ \E b \in Fetches : CreateTemp(b)
    \/ \E b \in Fetches : ResizeBegin(b)
    \/ \E b \in Fetches : ResizeEnd(b)
    \/ \E b \in Fetches : CreateRename(b)
    \/ \E b \in Fetches : SendLock(b)
    \/ \E b \in Fetches : SendResult(b)
    \/ \E b \in Fetches : RemoveTmp(b)

\* Thumbnail serving over a stored source set, under fair scheduling.
FairThumbnailSpec == StoredInit /\ [][ThumbnailNext]_vars /\ Fairness

\* The source store alone: MaxSourcePut concurrent PUT requests and MaxGet
\* GET/HEAD requests of /source/, over an empty SourceDir.
SourceInit ==
    /\ fs = [p \in AllPaths |-> Absent]
    /\ dirs = {}
    /\ pendingThumbnails = [k \in Keys |-> <<>>]
    /\ thumbnailMutex = NoHolder
    /\ fpc = [f \in Fetches |-> "idle"]
    /\ fth = [f \in Fetches |-> NoThumb]
    /\ ch = [f \in Fetches |-> NoChan]
    /\ fres = [f \in Fetches |-> NoResult]
    /\ early = [f \in Fetches |-> FALSE]
    /\ fstatus = [f \in Fetches |-> 0]
    /\ bpc = [f \in Fetches |-> "none"]
    /\ berr = [f \in Fetches |-> Nil]
    /\ bdefer = [f \in Fetches |-> FALSE]
    /\ ppc = [p \in SourcePuts |-> "idle"]
    /\ pkey = [p \in SourcePuts |-> <<>>]
    /\ pbody = [p \in SourcePuts |-> "none"]
    /\ pres = [p \in SourcePuts |-> 0]
    /\ faults = 0
    /\ broadcasts = 0
    /\ resizeCalls = [th \in ValidThumbs |-> 0]
    /\ resizeFails = [th \in ValidThumbs |-> 0]
    /\ crashed = FALSE
    /\ freq = [f \in Fetches |-> NoRequest]
    /\ gpc = [g \in Gets |-> "idle"]
    /\ greq = [g \in Gets |-> NoSourceRequest]
    /\ gres = [g \in Gets |-> NoResponse]
    /\ allowedHosts = ServedHosts
    /\ hpc = [h \in HostRequests |-> "idle"]
    /\ hreq = [h \in HostRequests |-> NoHostRequest]
    /\ hres = [h \in HostRequests |-> 0]
    /\ call = NoCall
    /\ ret = NoReturn

SourceNext ==
    \/ \E p \in SourcePuts : SaveSource(p)
    \/ \E p \in SourcePuts : SaveMkdir(p)
    \/ \E p \in SourcePuts : WriteCreate(p)
    \/ \E p \in SourcePuts : WriteCopy(p)
    \/ \E g \in Gets : ServeSource(g)
    \/ \E g \in Gets : SourceOpen(g)
    \/ \E g \in Gets : SourceServe(g)

SourceSpec == SourceInit /\ [][SourceNext]_vars

\* ------------------------------------------------------------ function calls
\* validateKey, parseThumbnail and RelPath applied to arguments drawn from
\* bounded sets.

\* Longest key handed to validateKey.
MaxKeyLen == 4

\* The characters of those keys; "_" is outside keyRE.
KeyAlphabet == {"a", "j", ".", "/", "_"}

RawKeys == UNION {[1..n -> KeyAlphabet] : n \in 0..MaxKeyLen}

\* Values of ServerConfig.AllowedExts.
ExtLists == {{}, {<<".", "j">>}, {<<".", "a">>, <<".">>}}

KeyCalls == [fn : {"validateKey"}, exts : ExtLists, key : RawKeys]

\* Values of ServerConfig: DefaultThumbnailWidth zero, on the allow-list of
\* Sizes and off every allow-list; AllowedThumbnailSizes empty or not.
Confs ==
    [AllowedExts : {{<<".", "j">>}},
     DefaultThumbnailWidth : {0, 1, 4},
     AllowedThumbnailSizes : {{}, Sizes, {<<0, 3>>}}]

\* The keys of the thumbnail requests: two valid ones and one without
\* extension.
RequestKeys == Keys \cup {<<"a">>}

\* Values of the query parameters w, h and m; <<>> is an absent parameter.
QueryWidths == {<<>>, <<"0">>, <<"1">>, <<"2">>, <<"0", "1">>, <<"x">>}

QueryHeights == {<<>>, <<"0">>, <<"3">>, <<"-", "1">>}

QueryModes == {<<>>, <<"0">>, <<"1">>, <<"2">>, <<"3">>, <<"4">>}

Requests ==
    [path : {ThumbnailPrefix \o k : k \in RequestKeys},
     w : QueryWidths, h : QueryHeights, m : QueryModes]

ParseCalls == [fn : {"parseThumbnail"}, conf : Confs, r : Requests]

\* The AllowedExts under which the keys of the RelPath calls are valid.
PathExts == {<<".", "j">>, <<".", "1">>}

\* Valid keys, some of which contain what RelPath writes.
PathKeys ==
    {k \in {<<"a", ".", "j">>, <<"a", "1", ".", "j">>, <<"a", "-", "w", "1", ".", "j">>,
            <<"a", ".", "1">>, <<".", "j">>, <<"d", "/", "b", ".", "j">>} :
        validateKey(PathExts, k) = Nil}

\* Thumbnails whose numbers written side by side read alike: 1 and 10 as
\* 11 and 0.
PathThumbs ==
    [Key : PathKeys, Width : {1, 11}, Height : {0, 10},
     Mode : {ResizeModeFit, ResizeModeCover}]

PathCalls == [fn : {"RelPath"}, a : PathThumbs, b : PathThumbs]

Calls == KeyCalls \cup ParseCalls \cup PathCalls

CallInit ==
    /\ ServerInit
    /\ call \in Calls
    /\ ret = NoReturn

\* validateKey is applied to the drawn key.
ValidateKey ==
    /\ call.fn = "validateKey"
    /\ ret = NoReturn
    /\ ret' = [fn |-> "validateKey", err |-> validateKey(call.exts, call.key)]
    /\ UNCHANGED <<fs, dirs, pendingThumbnails, thumbnailMutex, faults, crashed, freq,
                   call>>
    /\ UNCHANGED <<fetchVars, buildVars, putVars, logVars, sourceVars, hostVars>>

\* parseThumbnail is applied to the drawn request under the drawn
\* configuration.
ParseThumbnail ==
    /\ call.fn = "parseThumbnail"
    /\ ret = NoReturn
    /\ ret' = [fn |-> "parseThumbnail",
               th |-> parseThumbnail(call.conf, call.r).th,
               err |-> parseThumbnail(call.conf, call.r).err]
    /\ UNCHANGED <<fs, dirs, pendingThumbnails, thumbnailMutex, faults, crashed, freq,
                   call>>
    /\ UNCHANGED <<fetchVars, buildVars, putVars, logVars, sourceVars, hostVars>>

\* RelPath and thumbnailPath are applied to the two drawn thumbnails.
DeriveRelPath ==
    /\ call.fn = "RelPath"
    /\ ret = NoReturn
    /\ ret' = [fn |-> "RelPath",
               a |-> RelPath(call.a), b |-> RelPath(call.b),
               pathA |-> thumbnailPath(RelPath(call.a)),
               pathB |-> thumbnailPath(RelPath(call.b))]
    /\ UNCHANGED <<fs, dirs, pendingThumbnails, thumbnailMutex, faults, crashed, freq,
                   call>>
    /\ UNCHANGED <<fetchVars, buildVars, putVars, logVars, sourceVars, hostVars>>

CallNext ==
    \/ ValidateKey
    \/ ParseThumbnail
    \/ DeriveRelPath

CallSpec == CallInit /\ [][CallNext]_vars

\* ------------------------------------------------------ serveThumbnail, whole
\* serveThumbnail from the raw request on: parseThumbnail, then the answer
\* 400 or openThumbnail.

\* The configuration of the server the requests reach.
ServerConf ==
    [AllowedExts |-> {<<".", "j">>},
     DefaultThumbnailWidth |-> 1,
     AllowedThumbnailSizes |-> Sizes]

\* The requests that arrive: every mix of key, w and h of Requests, with m
\* either ResizeModeCover or out of range.
ThumbnailRequests ==
    {r \in Requests :
        /\ r.m \in {<<"2">>, <<"4">>}
        /\ r.w \in {<<>>, <<"1">>, <<"2">>, <<"x">>}
        /\ r.h \in {<<>>, <<"3">>, <<"-", "1">>}}

\* http.StatusBadRequest, serveThumbnail's answer to a parseThumbnail error.
BadRequestStatus == 400

\* The status serveThumbnail has written for request f.
ServeThumbnailStatus(f) == fstatus[f]

\* A GET /thumbnail/<key>?w=&h=&m= arrives: parseThumbnail; on an error the
\* handler answers 400 and returns, else it goes on to openThumbnail with
\* the parsed thumbnail.
RequestThumbnail(f) ==
    /\ ~crashed
    /\ fpc[f] = "idle"
    /\ \A g \in Fetches : g < f => fpc[g] # "idle"
    /\ \E r \in ThumbnailRequests :
          /\ freq' = [freq EXCEPT ![f] = r]
          /\ IF parseThumbnail(ServerConf, r).err # Nil
             THEN /\ fpc' = [fpc EXCEPT ![f] = "rejected"]
                  /\ fstatus' = [fstatus EXCEPT ![f] = BadRequestStatus]
                  /\ UNCHANGED <<fth, early>>
             ELSE /\ fth' = [fth EXCEPT ![f] = parseThumbnail(ServerConf, r).th]
                  /\ fpc' = [fpc EXCEPT ![f] = "open"]
                  /\ early' = [early EXCEPT ![f] = (broadcasts = 0)]
                  /\ UNCHANGED fstatus
    /\ UNCHANGED <<fs, dirs, pendingThumbnails, thumbnailMutex, ch, fres, faults,
                   crashed>>
    /\ UNCHANGED <<buildVars, putVars, logVars, sourceVars, callVars, hostVars>>

\* Thumbnail requests from the wire on, with their builds, no PUT arriving.
RequestNext ==
    \/ \E f \in Fetches : RequestThumbnail(f)
    \/ \E f \in Fetches : OpenFirst(f)
    \/ \E f \in Fetches : OpenLock(f)
    \/ \E f \in Fetches : OpenRegister(f)
    \/ \E f \in Fetches : OpenRecv(f)
    \/ \E f \in Fetches : OpenSecond(f)
    \/ \E f \in Fetches : ServeThumbnailFile(f)
    \/ \E b \in Fetches : CreateStat(b)
    \/ \E b \in Fetches : CreateStatSource(b)
    \/ \E b \in Fetches : CreateMkdir(b)
    \/ \E b \in Fetches : CreateTemp(b)
    \/ \E b \in Fetches : ResizeBegin(b)
    \/ \E b \in Fetches : ResizeEnd(b)
    \/ \E b \in Fetches : CreateRename(b)
    \/ \E b \in Fetches : SendLock(b)
    \/ \E b \in Fetches : SendResult(b)
    \/ \E b \in Fetches : RemoveTmp(b)

RequestSpec == StoredInit /\ [][RequestNext]_vars

\* --------------------------------------------------------------------- ServeHTTP
\* Requests from the wire on: ServeHTTP's Host test and redirect in front
\* of the mux, then thumbnailHandler or sourceHandler.

\* Mutant of isHostAllowed: every host passes.
isHostAllowedAlways(allowed, host) == TRUE

\* (s *Server) isHostAllowed with s.conf.AllowedHosts = allowed.
isHostAllowed(allowed, host) == \E allowedHost \in allowed : allowedHost = host

\* The pattern NewServer routes to sourceHandler.
SourcePrefix == <<"/", "s", "o", "u", "r", "c", "e", "/">>

\* The mux pattern of request h.
Route(h) == IF h[1] = "/thumbnail/" THEN ThumbnailPrefix ELSE SourcePrefix

\* The URL paths of the requests: the route and FairKey, with or without a
\* trailing slash.
HostPaths(h) == {Route(h) \o FairKey, Route(h) \o FairKey \o <<"/">>}

\* ServeHTTP's test for the redirect: p != "/" && p[len(p)-1] == '/'.
TrailingSlash(p) == p # <<"/">> /\ p[Len(p)] = "/"

\* ServeHTTP up to s.handler.ServeHTTP: a request whose Host is not allowed
\* is answered 500, one whose path ends in a slash is redirected (301),
\* any other is handed to the mux.
ServeHTTP(h) ==
    /\ ~crashed
    /\ hpc[h] = "idle"
    /\ \E host \in Hosts, path \in HostPaths(h) :
          /\ hreq' = [hreq EXCEPT ![h] = [host |-> host, path |-> path]]
          /\ IF ~isHostAllowed(allowedHosts, host)
             THEN /\ hpc' = [hpc EXCEPT ![h] = "refused"]
                  /\ hres' = [hres EXCEPT ![h] = 500]
             ELSE IF TrailingSlash(path)
             THEN /\ hpc' = [hpc EXCEPT ![h] = "redirected"]
                  /\ hres' = [hres EXCEPT ![h] = 301]
             ELSE /\ hpc' = [hpc EXCEPT ![h] = "routed"]
                  /\ UNCHANGED hres
    /\ UNCHANGED <<fs, dirs, pendingThumbnails, thumbnailMutex, faults, crashed, freq,
                   allowedHosts>>
    /\ UNCHANGED <<fetchVars, buildVars, putVars, logVars, sourceVars, callVars>>

\* The mux hands request h to its handler.
Routed(h) == hpc[h] = "routed"

\* thumbnailHandler receives the request ServeHTTP passed on: serveThumbnail
\* with the key of its URL path, parseThumbnail accepting it as th.
HandleThumbnail(f) ==
    /\ ~crashed
    /\ Routed(<<"/thumbnail/", f>>)
    /\ fpc[f] = "idle"
    /\ \E th \in ValidThumbs :
          /\ th.Key = removePrefix(hreq[<<"/thumbnail/", f>>].path, ThumbnailPrefix)
          /\ fth' = [fth EXCEPT ![f] = th]
    /\ fpc' = [fpc EXCEPT ![f] = "open"]
    /\ early' = [early EXCEPT ![f] = (broadcasts = 0)]
    /\ UNCHANGED <<fs, dirs, pendingThumbnails, thumbnailMutex, ch, fres, fstatus,
                   faults, crashed>>
    /\ UNCHANGED <<buildVars, putVars, logVars>>
    /\ UNCHANGED <<freq, sourceVars, callVars, hostVars>>

\* sourceHandler receives the PUT ServeHTTP passed on: saveSource with
\* the key of its URL path, validateKey accepting it.
HandleSource(p) ==
    /\ ~crashed
    /\ Routed(<<"/source/", p>>)
    /\ ppc[p] = "idle"
    /\ pkey' = [pkey EXCEPT ![p] = removePrefix(hreq[<<"/source/", p>>].path, SourcePrefix)]
    /\ \E body \in Bodies : pbody' = [pbody EXCEPT ![p] = body]
    /\ ppc' = [ppc EXCEPT ![p] = "mkdir"]
    /\ UNCHANGED <<fs, dirs, pendingThumbnails, thumbnailMutex, pres, faults, crashed>>
    /\ UNCHANGED <<fetchVars, buildVars, logVars>>
    /\ UNCHANGED <<freq, sourceVars, callVars, hostVars>>

\* The server under the configuration of cmd/space/main.go or under one
\* that lists a host, over empty directories.
HostInit ==
    /\ fs = [p \in AllPaths |-> Absent]
    /\ dirs = {}
    /\ pendingThumbnails = [k \in Keys |-> <<>>]
    /\ thumbnailMutex = NoHolder
    /\ fpc = [f \in Fetches |-> "idle"]
    /\ fth = [f \in Fetches |-> NoThumb]
    /\ ch = [f \in Fetches |-> NoChan]
    /\ fres = [f \in Fetches |-> NoResult]
    /\ early = [f \in Fetches |-> FALSE]
    /\ fstatus = [f \in Fetches |-> 0]
    /\ bpc = [f \in Fetches |-> "none"]
    /\ berr = [f \in Fetches |-> Nil]
    /\ bdefer = [f \in Fetches |-> FALSE]
    /\ ppc = [p \in Puts |-> "idle"]
    /\ pkey = [p \in Puts |-> <<>>]
    /\ pbody = [p \in Puts |-> "none"]
    /\ pres = [p \in Puts |-> 0]
    /\ faults = 0
    /\ broadcasts = 0
    /\ resizeCalls = [th \in ValidThumbs |-> 0]
    /\ resizeFails = [th \in ValidThumbs |-> 0]
    /\ crashed = FALSE
    /\ freq = [f \in Fetches |-> NoRequest]
    /\ gpc = [g \in Gets |-> "idle"]
    /\ greq = [g \in Gets |-> NoSourceRequest]
    /\ gres = [g \in Gets |-> NoResponse]
    /\ call = NoCall
    /\ ret = NoReturn
    /\ allowedHosts \in {MainAllowedHosts, ServedHosts}
    /\ hpc = [h \in HostRequests |-> "idle"]
    /\ hreq = [h \in HostRequests |-> NoHostRequest]
    /\ hres = [h \in HostRequests |-> 0]

HostNext ==
    \/ \E h \in HostRequests : ServeHTTP(h)
    \/ \E f \in Fetches : HandleThumbnail(f)
    \/ \E f \in Fetches : OpenFirst(f)
    \/ \E f \in Fetches : OpenLock(f)
    \/ \E f \in Fetches : OpenRegister(f)
    \/ \E f \in Fetches : OpenRecv(f)
    \/ \E f \in Fetches : OpenSecond(f)
    \/ \E f \in Fetches : ServeThumbnailFile(f)
    \/ \E b \in Fetches : CreateStat(b)
    \/ \E b \in Fetches : CreateStatSource(b)
    \/ \E b \in Fetches : CreateMkdir(b)
    \/ \E b \in Fetches : CreateTemp(b)
    \/ \E b \in Fetches : ResizeBegin(b)
    \/ \E b \in Fetches : ResizeEnd(b)
    \/ \E b \in Fetches : CreateRename(b)
    \/ \E b \in Fetches : SendLock(b)
    \/ \E b \in Fetches : SendResult(b)
    \/ \E b \in Fetches : RemoveTmp(b)
    \/ \E p \in Puts : HandleSource(p)
    \/ \E p \in Puts : SaveMkdir(p)
    \/ \E p \in Puts : WriteCreate(p)
    \/ \E p \in Puts : WriteCopy(p)

HostSpec == HostInit /\ [][HostNext]_vars

\* -------------------------------------------------------------------- claims

\* Goroutine b is a createThumbnail run between its start and its broadcast.
InFlight(b) ==
    bpc[b] \in {"stat", "statsrc", "mkdir", "mktemp", "resize", "resizing", "rename",
                "sendlock", "send"}

\* Goroutine b is past its broadcast.
Broadcast(b) == bpc[b] \in {"remove", "done"}

\* openThumbnail has returned to request f, answered or not yet.
Returned(f) == fpc[f] \in {"done", "answered"}

\* The waiters of a list, as a set.
Waiters(list) == {list[i] : i \in 1..Len(list)}

\* Every request has ended, all asked for the same thumbnail, all arrived
\* before any broadcast (so all were in flight together) and all missed on
\* their first open.
AllConcurrentSame ==
    \A f \in Fetches :
        /\ Returned(f)
        /\ early[f]
        /\ ch[f].made
        /\ fth[f] = fth[1]

\* C1 as stated: N concurrent fetches of the identical (key, width, height,
\* mode) whose variant is absent at the start invoke the resizer exactly
\* once in total and all end with the same result, whether the resizer
\* succeeds or fails (here even granted that no filesystem call fails and
\* the source exists).
C1_ExactlyOnceAlways ==
    (AllConcurrentSame /\ faults = 0 /\ fs[sourcePath(fth[1].Key)] # Absent
       /\ \A f \in Fetches : fres[f].err # ENOENT)
    => /\ resizeCalls[fth[1]] = 1
       /\ \A f, g \in Fetches : fres[f] = fres[g]

\* C1 amended: for N concurrent fetches of the identical (key, width,
\* height, mode) whose variant is absent at the start, with no filesystem
\* error: the resizer is invoked at most once more often than it has failed,
\* and if it never fails and the source exists it is invoked exactly once
\* and all N fetches succeed with the same file content.
C1_ExactlyOnceIfResizerSucceeds ==
    (AllConcurrentSame /\ faults = 0)
    => /\ resizeCalls[fth[1]] <= resizeFails[fth[1]] + 1
       /\ (resizeFails[fth[1]] = 0 /\ \A f \in Fetches : fres[f].err # ENOENT)
          => /\ resizeCalls[fth[1]] = 1
             /\ \A f \in Fetches :
                   fres[f] = [err |-> Nil, file |-> fs[VariantPath(fth[1])]]

\* C1 witness: all the concurrent fetches of one thumbnail have ended in
\* success after a single resizer invocation, one of them as a follower.
C1_Witness ==
    /\ AllConcurrentSame
    /\ faults = 0
    /\ resizeCalls[fth[1]] = 1
    /\ resizeFails[fth[1]] = 0
    /\ \E f \in Fetches : bpc[f] = "none"
    /\ \A f \in Fetches : fres[f].err = Nil

\* C2: in every reachable state no two createThumbnail runs for the same
\* VariantPath are in flight together.
C2_OneBuilderPerPath ==
    \A a, b \in Fetches :
        (a # b /\ InFlight(a) /\ InFlight(b))
        => VariantPath(fth[a]) # VariantPath(fth[b])

\* C2 witness: a build is inside the resizer while another request for the
\* same VariantPath waits on it without having started a build.
C2_Witness ==
    \E a, b \in Fetches :
        /\ a # b
        /\ bpc[a] = "resizing"
        /\ fpc[b] = "wait"
        /\ bpc[b] = "none"
        /\ VariantPath(fth[a]) = VariantPath(fth[b])

\* C3 as stated: a follower signaled success finds the file at its own
\* VariantPath when it opens it, whatever mix of specs was requested for
\* the key.
C3_FollowerFileIsPresent ==
    \A f \in Fetches :
        (fpc[f] = "reopen" /\ bpc[f] = "none")
        => fs[VariantPath(fth[f])] # Absent

\* C4: when a build broadcasts, every waiter in the list receives the
\* builder's outcome (nil or the identical error), and whoever invokes the
\* resizer is the goroutine started by the first waiter of the list, never a
\* follower.
C4_BroadcastFansOutVerbatim ==
    [][/\ \A b \in Fetches :
             (bpc[b] = "send" /\ Broadcast(b)')
             => \A g \in Waiters(pendingThumbnails[RegistryKey(fth[b])]) :
                   /\ ch'[g].closed
                   /\ ChanRecv(ch'[g]) = berr[b]
       /\ \A b \in Fetches :
             (bpc[b] = "resize" /\ bpc'[b] = "resizing")
             => /\ pendingThumbnails[RegistryKey(fth[b])] # <<>>
                /\ Head(pendingThumbnails[RegistryKey(fth[b])]) = b
       /\ \A k \in Keys : \A i \in 2..Len(pendingThumbnails[k]) :
             bpc[pendingThumbnails[k][i]] = "none"]_vars

\* C4 witness: a failed build has broadcast its error to a follower, which
\* holds it in its channel.
C4_Witness ==
    \E b, g \in Fetches :
        /\ b # g
        /\ Broadcast(b)
        /\ berr[b] = EResize
        /\ bpc[g] = "none"
        /\ fpc[g] = "wait"
        /\ ch[g].closed
        /\ ChanRecv(ch[g]) = EResize

\* C5: whenever a file exists at a VariantPath it is a complete image, and
\* the only step that changes what is at a VariantPath is a build's rename
\* of its temp file onto it.
C5_NoPartialArtifact ==
    /\ [](\A p \in VariantPaths :
             fs[p] # Absent => (fs[p].kind = "img" /\ fs[p].complete))
    /\ [][\A th \in ValidThumbs :
             fs'[VariantPath(th)] # fs[VariantPath(th)]
             => \E b \in Fetches :
                   /\ fth[b] = th
                   /\ bpc[b] = "rename"
                   /\ fs'[VariantPath(th)] = fs[TmpPath(th, b)]]_vars

\* C5 witness: a resizer is part-way through writing its temp file while
\* another variant is already installed.
C5_Witness ==
    /\ \E b \in Fetches :
          /\ bpc[b] = "resizing"
          /\ fs[TmpPath(fth[b], b)].kind = "img"
          /\ ~fs[TmpPath(fth[b], b)].complete
    /\ \E p \in VariantPaths : fs[p] # Absent

\* C6: when a build whose resizer failed broadcasts, no file exists at its
\* VariantPath; a fetch that registers on the cleared list starts a build
\* of its own; and that build, the file being absent after the failure,
\* invokes the resizer again unless a filesystem call of it fails.
C6_FailureLeavesNothingAndRetries ==
    /\ [](\A b \in Fetches :
             (bpc[b] \in {"sendlock", "send"} /\ berr[b] = EResize)
             => fs[VariantPath(fth[b])] = Absent)
    /\ [][\A b \in Fetches :
             (bpc[b] = "send" /\ Broadcast(b)' /\ berr[b] = EResize)
             => fs'[VariantPath(fth[b])] = Absent]_vars
    /\ [][\A f \in Fetches :
             (fpc[f] = "register" /\ fpc'[f] = "wait"
                /\ pendingThumbnails[RegistryKey(fth[f])] = <<>>)
             => bpc'[f] = "stat"]_vars
    /\ \A f \in Fetches :
          (/\ fpc[f] = "register"
           /\ pendingThumbnails[RegistryKey(fth[f])] = <<>>
           /\ resizeFails[fth[f]] >= 1
           /\ fs[VariantPath(fth[f])] = Absent)
          ~> (bpc[f] = "resizing" \/ berr[f] = EIO)

\* C6 witness: after a failed resizer run left no file, a later build of
\* the same variant is inside the resizer again.
C6_Witness ==
    \E a, b \in Fetches :
        /\ a # b
        /\ fth[a] = fth[b]
        /\ Broadcast(a)
        /\ berr[a] = EResize
        /\ bpc[b] = "resizing"
        /\ resizeCalls[fth[b]] = 2
        /\ fs[VariantPath(fth[b])] = Absent

\* C7: while a file exists at a VariantPath the resizer is not invoked for
\* it and the file does not change, so every fetch that returns a file
\* returns that same content.
C7_PresentIsFinal ==
    /\ [][\A th \in ValidThumbs :
             fs[VariantPath(th)] # Absent
             => /\ resizeCalls'[th] = resizeCalls[th]
                /\ fs'[VariantPath(th)] = fs[VariantPath(th)]]_vars
    /\ [](\A f \in Fetches :
             (Returned(f) /\ fres[f].err = Nil)
             => fres[f].file = fs[VariantPath(fth[f])])

\* C7 witness: a request that arrived after the build had broadcast, and
\* one that registered a waiter, have both returned the installed file.
C7_Witness ==
    \E f, g \in Fetches :
        /\ fpc[f] = "done" /\ fpc[g] = "done"
        /\ fth[f] = fth[g]
        /\ ~early[g] /\ ~ch[g].made
        /\ ch[f].made
        /\ fres[f].err = Nil /\ fres[g].err = Nil
        /\ fres[g].file = fs[VariantPath(fth[g])]

\* C8: every waiter in the list at a broadcast is signaled by it and the
\* list is then empty; a waiter that registers on the cleared list is the
\* first entry of a fresh list and starts a build; and no unsignaled waiter
\* is ever outside the list of a build still in flight.
C8_WaitersFollowTheirBuild ==
    /\ [][\A b \in Fetches :
             (bpc[b] = "send" /\ Broadcast(b)')
             => /\ \A g \in Waiters(pendingThumbnails[RegistryKey(fth[b])]) :
                      ch'[g].closed
                /\ pendingThumbnails'[RegistryKey(fth[b])] = <<>>]_vars
    /\ [][\A f \in Fetches :
             (fpc[f] = "register" /\ fpc'[f] = "wait"
                /\ pendingThumbnails[RegistryKey(fth[f])] = <<>>)
             => /\ pendingThumbnails'[RegistryKey(fth[f])] = <<f>>
                /\ InFlight(f)']_vars
    /\ [](\A f \in Fetches :
             (fpc[f] = "wait" /\ ~ch[f].closed)
             => /\ f \in Waiters(pendingThumbnails[RegistryKey(fth[f])])
                /\ InFlight(Head(pendingThumbnails[RegistryKey(fth[f])])))

\* C8 witness: a request that arrived before a build's broadcast registered
\* only after it, and is now the single waiter of a new build for the key.
C8_Witness ==
    \E a, f \in Fetches :
        /\ a # f
        /\ RegistryKey(fth[a]) = RegistryKey(fth[f])
        /\ Broadcast(a)
        /\ ch[a].closed
        /\ early[f]
        /\ fpc[f] = "wait"
        /\ pendingThumbnails[RegistryKey(fth[f])] = <<f>>
        /\ InFlight(f)

\* C9: a build that has started always reaches its broadcast, and every
\* fetch that registered a waiter eventually receives a result and returns
\* (under fair scheduling, the resizer and filesystem calls returning).
C9_BuildsAndWaitersFinish ==
    /\ \A b \in Fetches : InFlight(b) ~> Broadcast(b)
    /\ \A f \in Fetches : (fpc[f] = "wait") ~> (fpc[f] = "done")

\* C9 witness: a follower has returned with the result of a build that
\* another request started.
C9_Witness ==
    \E b, f \in Fetches :
        /\ b # f
        /\ Broadcast(b)
        /\ bpc[f] = "none"
        /\ ch[f].made
        /\ fpc[f] = "done"
        /\ fres[f].err \in {Nil, EResize}

\* C10: a key's waiter list is non-empty only while a build for it is in
\* flight: a non-empty list has exactly one createThumbnail run before its
\* broadcast, started by the list's first waiter, and with no such run the
\* list is empty.
C10_ListOnlyWhileBuilding ==
    \A k \in Keys :
        LET running == {b \in Fetches : InFlight(b) /\ RegistryKey(fth[b]) = k}
        IN  /\ pendingThumbnails[k] # <<>>
               => running = {Head(pendingThumbnails[k])}
            /\ running = {} => pendingThumbnails[k] = <<>>

\* C10 witness: after one build of a key has broadcast and left the list
\* empty, the list holds a waiter again while the next build runs.
C10_Witness ==
    \E a, b \in Fetches :
        /\ a # b
        /\ RegistryKey(fth[a]) = RegistryKey(fth[b])
        /\ Broadcast(a)
        /\ pendingThumbnails[RegistryKey(fth[b])] = <<b>>
        /\ InFlight(b)

\* Request goroutine f is at a filesystem call of openThumbnail (os.Open).
FetchInCall(f) == fpc[f] \in {"open", "reopen"}

\* Goroutine b is at a filesystem call or inside the resizer call of
\* createThumbnail (os.Stat, os.MkdirAll, os.CreateTemp, Resize, os.Rename,
\* the deferred os.Remove).
BuildInCall(b) ==
    bpc[b] \in {"stat", "statsrc", "mkdir", "mktemp", "resize", "resizing", "rename",
                "remove"}

\* C11: the mutex is held only by a request inside the append-and-check
\* section of openThumbnail or by a build inside the broadcast-and-clear
\* section of sendThumbnailResult; the goroutine that holds it is never at
\* a filesystem call or inside the resizer call.
C11_MutexNotHeldAcrossCalls ==
    /\ thumbnailMutex \in {NoHolder}
          \cup {<<"openThumbnail", f>> : f \in Fetches}
          \cup {<<"sendThumbnailResult", b>> : b \in Fetches}
    /\ \A f \in Fetches :
          thumbnailMutex = <<"openThumbnail", f>>
          => (fpc[f] = "register" /\ ~FetchInCall(f))
    /\ \A b \in Fetches :
          thumbnailMutex = <<"sendThumbnailResult", b>>
          => (bpc[b] \in {"send", "crashed"} /\ ~BuildInCall(b))

\* C11 witness: a request holds the mutex to register its waiter while the
\* build of another request is inside the resizer.
C11_Witness ==
    \E f, b \in Fetches :
        /\ f # b
        /\ thumbnailMutex = <<"openThumbnail", f>>
        /\ fpc[f] = "register"
        /\ bpc[b] = "resizing"

\* The PUT goroutines that got past the exclusive create of key k: those
\* copying the body and those that answered 200.
Creators(k) ==
    {p \in DOMAIN ppc : pkey[p] = k /\ (ppc[p] = "copy" \/ pres[p] = 200)}

\* C12: a PUT whose create finds a file at the key's source path answers
\* 500 and leaves the filesystem as it is; a complete source file never
\* changes; and of the PUTs of one key at most one gets past the create,
\* so at most one answers 200, and the file then holds its body.
C12_PutIsCreateExclusive ==
    /\ [][\A p \in DOMAIN ppc :
             (ppc[p] = "create" /\ ppc'[p] # "create"
                /\ fs[sourcePath(pkey[p])] # Absent)
             => (pres'[p] = 500 /\ ppc'[p] = "done" /\ fs' = fs)]_vars
    /\ [][\A k \in Keys :
             (fs[sourcePath(k)] # Absent /\ fs[sourcePath(k)].complete)
             => fs'[sourcePath(k)] = fs[sourcePath(k)]]_vars
    /\ [](\A k \in Keys : Cardinality(Creators(k)) <= 1)
    /\ [](\A p \in DOMAIN ppc :
             pres[p] = 200 => fs[sourcePath(pkey[p])] = SourceData(pbody[p], TRUE))

\* C12 witness: of two concurrent PUTs of one key with different bodies,
\* one has answered 500 while the other, which created the file, is still
\* copying its body.
C12_Witness ==
    \E p, q \in DOMAIN ppc :
        /\ p # q
        /\ pkey[p] = pkey[q]
        /\ pbody[p] # pbody[q]
        /\ faults = 0
        /\ ppc[p] = "copy"
        /\ ppc[q] = "done"
        /\ pres[q] = 500
        /\ fs[sourcePath(pkey[p])] = SourceData(pbody[p], FALSE)

\* C13 as stated: the body a GET of /source/<key> serves is the complete
\* PUT body, and from the moment a GET has opened the file its content
\* never changes, also when the GET runs while the PUT that creates the
\* file is still copying.
C13_SourceImmutableOnceReadable ==
    /\ [](\A g \in Gets :
             (gpc[g] = "done" /\ gres[g].status = 200 /\ greq[g].method = "GET")
             => \E body \in Bodies : gres[g].body = SourceData(body, TRUE))
    /\ [][\A g \in Gets :
             gpc[g] = "serve"
             => fs'[sourcePath(greq[g].key)] = fs[sourcePath(greq[g].key)]]_vars

\* C14: a GET or HEAD of /source/<key> whose os.Open finds no file (and
\* returns no I/O error) answers 404; no step of serveSource changes a
\* file, a directory or the registry; and a request for a key no PUT has
\* ever named ends in 404 unless its os.Open returned an I/O error.
C14_MissingSourceIs404 ==
    /\ [][\A g \in Gets :
             (gpc[g] = "open" /\ gpc'[g] # "open" /\ faults' = faults
                /\ fs[sourcePath(greq[g].key)] = Absent)
             => (gpc'[g] = "done" /\ gres'[g] = [status |-> 404, body |-> Absent])]_vars
    /\ [][\A g \in Gets :
             gpc'[g] # gpc[g]
             => UNCHANGED <<fs, dirs, pendingThumbnails, thumbnailMutex>>]_vars
    /\ [](\A g \in Gets :
             (gpc[g] = "done" /\ gres[g].status # 500
                /\ \A p \in DOMAIN ppc : pkey[p] # greq[g].key)
             => (gres[g].status = 404 /\ fs[sourcePath(greq[g].key)] = Absent))

\* C14 witness: a GET and a HEAD of a key that no PUT has named have both
\* been answered 404 while another key is stored, and nothing exists at the
\* key's source path.
C14_Witness ==
    \E g, h \in Gets :
        /\ greq[g].method = "GET"
        /\ greq[h].method = "HEAD"
        /\ greq[g].key = greq[h].key
        /\ gpc[g] = "done" /\ gpc[h] = "done"
        /\ gres[g].status = 404 /\ gres[h].status = 404
        /\ \A p \in DOMAIN ppc : pkey[p] # greq[g].key
        /\ \E p \in DOMAIN ppc : pres[p] = 200
        /\ fs[sourcePath(greq[g].key)] = Absent

\* C16 as stated: every thumbnail parseThumbnail accepts has a non-zero
\* width or height and a (width, height) pair on the configured allow-list,
\* whatever DefaultThumbnailWidth and AllowedThumbnailSizes are and whether
\* w and h are present, absent or zero.
C16_AcceptedSizeIsAllowed ==
    (ret.fn = "parseThumbnail" /\ ret.err = Nil)
    => /\ (ret.th.Width # 0 \/ ret.th.Height # 0)
       /\ <<ret.th.Width, ret.th.Height>> \in call.conf.AllowedThumbnailSizes

\* C17 as stated: the mode of every thumbnail parseThumbnail accepts is
\* ResizeModeFit, ResizeModeCover or ResizeModeStretch, also for a request
\* without the m parameter, and so is the mode in its derived path.
C17_AcceptedModeIsEnumerated ==
    (ret.fn = "parseThumbnail" /\ ret.err = Nil)
    => /\ ret.th.Mode \in {ResizeModeFit, ResizeModeCover, ResizeModeStretch}
       /\ \E mode \in {ResizeModeFit, ResizeModeCover, ResizeModeStretch} :
             Contains(RelPath(ret.th), <<"-", "m">> \o Dec(mode) \o Ext(ret.th.Key))

\* Every slash-separated element of the key is a name: not empty, not "."
\* and not "..".
ProperElements(key) ==
    \A i \in 1..Len(SplitSlash(key)) :
        SplitSlash(key)[i] \notin {<<>>, <<".">>, <<".", ".">>}

\* C18: validateKey returns an error for every key that is empty, has a
\* character outside [A-Za-z0-9./-], contains "..", begins with "/",
\* differs from path.Clean of itself (has an empty, "." or ".." element),
\* is ".", has no extension or has one outside AllowedExts; and every key
\* it accepts equals its normal form, consists of proper elements and has
\* its source path at SourceDir/<key>, itself in normal form.
C18_ValidateKeyRejectsAndAccepts ==
    ret.fn = "validateKey"
    => /\ (\/ call.key = <<>>
            \/ \E i \in 1..Len(call.key) : call.key[i] \notin KeyChars
            \/ Contains(call.key, <<".", ".">>)
            \/ (call.key # <<>> /\ call.key[1] = "/")
            \/ Clean(call.key) # call.key
            \/ ~ProperElements(call.key)
            \/ call.key = <<".">>
            \/ Ext(call.key) = <<>>
            \/ Ext(call.key) \notin call.exts)
          => ret.err # Nil
       /\ ret.err = Nil
          => /\ Clean(call.key) = call.key
             /\ ProperElements(call.key)
             /\ sourcePath(call.key) = SourceDir \o <<"/">> \o call.key
             /\ Clean(sourcePath(call.key)) = sourcePath(call.key)

\* C18 witness: validateKey has accepted a key with a directory element.
C18_Witness ==
    /\ ret.fn = "validateKey"
    /\ ret.err = Nil
    /\ Contains(call.key, <<"/">>)
    /\ Ext(call.key) \in call.exts

\* C19: RelPath gives equal paths for equal (key, width, height, mode) and
\* different paths for different ones, whether they differ in the spec or
\* in the (valid) key, and so does the path under ThumbnailDir.
C19_RelPathIsInjective ==
    ret.fn = "RelPath"
    => /\ (call.a = call.b) <=> (ret.a = ret.b)
       /\ (call.a = call.b) <=> (ret.pathA = ret.pathB)

\* C19 witness: two specs of one key whose numbers read alike side by side
\* (1, 10 and 11, 0) have got different paths.
C19_Witness ==
    /\ ret.fn = "RelPath"
    /\ call.a.Key = call.b.Key
    /\ call.a.Mode = call.b.Mode
    /\ call.a.Width = 1 /\ call.a.Height = 10
    /\ call.b.Width = 11 /\ call.b.Height = 0
    /\ ret.a # ret.b

\* The request fails validation: its key is invalid, its w or h is not an
\* unsigned number, its m is none of 1, 2, 3, or the size it names is not
\* in AllowedThumbnailSizes.
FailsValidation(conf, r) ==
    \/ validateKey(conf.AllowedExts, removePrefix(r.path, ThumbnailPrefix)) # Nil
    \/ (r.w # <<>> /\ ~ParseUintOk(r.w))
    \/ (r.h # <<>> /\ ~ParseUintOk(r.h))
    \/ r.m \notin {<<>>, <<"1">>, <<"2">>, <<"3">>}
    \/ LET width  == IF r.w # <<>> THEN ParseUintVal(r.w) ELSE 0
           height == IF r.h # <<>> THEN ParseUintVal(r.h) ELSE 0
       IN  /\ <<width, height>> # <<0, 0>>
           /\ <<width, height>> \notin conf.AllowedThumbnailSizes

\* C15: a thumbnail request is answered 400 exactly when it fails
\* validation; the step that rejects it changes no file, directory, waiter
\* list, channel, build or resizer count; and a rejected request never has
\* a channel, a place in a waiter list or a build.
C15_RejectedAtTheBoundary ==
    /\ [](\A f \in Fetches :
             fpc[f] # "idle"
             => /\ FailsValidation(ServerConf, freq[f]) <=> (fpc[f] = "rejected")
                /\ FailsValidation(ServerConf, freq[f])
                   <=> (ServeThumbnailStatus(f) = 400))
    /\ [][\A f \in Fetches :
             (fpc[f] = "idle" /\ fpc'[f] = "rejected")
             => /\ UNCHANGED <<fs, dirs, pendingThumbnails, thumbnailMutex, ch>>
                /\ UNCHANGED <<buildVars, logVars>>]_vars
    /\ [](\A f \in Fetches :
             fpc[f] = "rejected"
             => /\ ~ch[f].made
                /\ bpc[f] = "none"
                /\ fth[f] = NoThumb
                /\ \A k \in Keys : f \notin Waiters(pendingThumbnails[k]))
    /\ [][\A f \in Fetches : fpc[f] = "rejected" => fpc'[f] = "rejected"]_vars

\* C15 witness: a request for a size off the allow-list has been rejected
\* while the build of an accepted request for the same key is inside the
\* resizer.
C15_Witness ==
    \E f, b \in Fetches :
        /\ fpc[f] = "rejected"
        /\ freq[f].w = <<"2">> /\ freq[f].h = <<>> /\ freq[f].m = <<"2">>
        /\ freq[f].path = freq[b].path
        /\ bpc[b] = "resizing"
        /\ resizeCalls[fth[b]] = 1

\* C20: a createThumbnail run whose first os.Stat finds the file at its
\* path (and returns no I/O error) goes straight to sendThumbnailResult
\* with a nil error, changing no file and no directory and not calling the
\* resizer; it never has a temp file; and its broadcast hands nil to every
\* waiter of the list and changes no file.
C20_PresentOnRestatIsSuccess ==
    /\ [][\A b \in Fetches :
             (bpc[b] = "stat" /\ bpc'[b] # "stat" /\ faults' = faults
                /\ fs[VariantPath(fth[b])] # Absent)
             => /\ bpc'[b] = "sendlock"
                /\ berr'[b] = Nil
                /\ ~bdefer'[b]
                /\ UNCHANGED <<fs, dirs, resizeCalls>>]_vars
    /\ [](\A b \in Fetches :
             (bpc[b] \in {"sendlock", "send", "done"} /\ berr[b] = Nil /\ ~bdefer[b])
             => /\ fs[VariantPath(fth[b])] # Absent
                /\ fs[TmpPath(fth[b], b)] = Absent)
    /\ [][\A b \in Fetches :
             (bpc[b] = "send" /\ Broadcast(b)' /\ berr[b] = Nil /\ ~bdefer[b])
             => /\ bpc'[b] = "done"
                /\ \A g \in Waiters(pendingThumbnails[RegistryKey(fth[b])]) :
                      ch'[g].closed /\ ChanRecv(ch'[g]) = Nil
                /\ UNCHANGED <<fs, dirs, resizeCalls>>]_vars

\* C20 witness: a request that missed on its first open before any
\* broadcast registered after the build of the same thumbnail had installed
\* the file; its own build found the file, made no temp file and broadcast
\* success, the resizer having run once, and the request returned the file.
C20_Witness ==
    \E a, b \in Fetches :
        /\ a # b
        /\ fth[a] = fth[b]
        /\ bdefer[a] /\ berr[a] = Nil /\ Broadcast(a)
        /\ early[b] /\ ch[b].made
        /\ bpc[b] = "done" /\ ~bdefer[b] /\ berr[b] = Nil
        /\ resizeCalls[fth[b]] = 1
        /\ fpc[b] = "done"
        /\ fres[b] = [err |-> Nil, file |-> fs[VariantPath(fth[b])]]

\* C21: a createThumbnail run whose os.Stat(src) finds no source (and
\* returns no I/O error) goes to sendThumbnailResult with the not-exist
\* error, making no directory, no temp file and no file at its path and
\* not calling the resizer; its broadcast hands that error to its own
\* requester and to every follower in the list and changes no file and no
\* directory; and a requester that receives it returns it from
\* openThumbnail and is answered 404, no file being opened or read.
C21_MissingSourceFailsClean ==
    /\ [][\A b \in Fetches :
             (bpc[b] = "statsrc" /\ bpc'[b] # "statsrc" /\ faults' = faults
                /\ fs[sourcePath(fth[b].Key)] = Absent)
             => /\ bpc'[b] = "sendlock"
                /\ berr'[b] = ENOENT
                /\ ~bdefer'[b]
                /\ UNCHANGED <<fs, dirs, resizeCalls>>]_vars
    /\ [](\A b \in Fetches :
             (bpc[b] \in {"sendlock", "send"} /\ berr[b] = ENOENT)
             => /\ ~bdefer[b]
                /\ fs[VariantPath(fth[b])] = Absent
                /\ fs[TmpPath(fth[b], b)] = Absent
                /\ b \in Waiters(pendingThumbnails[RegistryKey(fth[b])]))
    /\ [][\A b \in Fetches :
             (bpc[b] \in {"sendlock", "send"} /\ bpc'[b] # bpc[b] /\ berr[b] = ENOENT)
             => UNCHANGED <<fs, dirs, resizeCalls>>]_vars
    /\ [][\A b \in Fetches :
             (bpc[b] = "send" /\ Broadcast(b)' /\ berr[b] = ENOENT)
             => /\ bpc'[b] = "done"
                /\ \A g \in Waiters(pendingThumbnails[RegistryKey(fth[b])]) :
                      ch'[g].closed /\ ChanRecv(ch'[g]) = ENOENT]_vars
    /\ [][\A f \in Fetches :
             (fpc[f] = "wait" /\ fpc'[f] # "wait" /\ ChanRecv(ch[f]) = ENOENT)
             => /\ fpc'[f] = "done"
                /\ fres'[f] = [err |-> ENOENT, file |-> Absent]]_vars
    /\ [][\A f \in Fetches :
             (fpc[f] = "done" /\ fpc'[f] # "done" /\ fres[f].err = ENOENT)
             => /\ fpc'[f] = "answered"
                /\ ServeThumbnailStatus(f)' = 404
                /\ UNCHANGED <<faults, fs>>]_vars

\* C21 witness: the requester of a build that found no source and a
\* follower of that build have both been answered 404; no directory, no
\* file and no resizer call was made.
C21_Witness ==
    \E b, g \in Fetches :
        /\ b # g
        /\ fth[b] = fth[g]
        /\ bpc[b] = "done" /\ berr[b] = ENOENT
        /\ bpc[g] = "none" /\ ch[g].made
        /\ fpc[b] = "answered" /\ fpc[g] = "answered"
        /\ fres[b].err = ENOENT /\ fres[g].err = ENOENT
        /\ ServeThumbnailStatus(b) = 404 /\ ServeThumbnailStatus(g) = 404
        /\ dirs = {}
        /\ \A p \in AllPaths : fs[p] = Absent
        /\ \A th \in ValidThumbs : resizeCalls[th] = 0

\* The temp file createThumbnail run b made is gone.
TmpGone(b) == fs[TmpPath(fth[b], b)] = Absent

\* C22 as stated: after a build run that made a temp file has ended, with
\* whatever outcome, its temp file does not exist, also when the removal
\* failed; and the removal changes no result.
C22_TempFileAlwaysGone ==
    /\ [](\A b \in Fetches : (bpc[b] = "done" /\ bdefer[b]) => TmpGone(b))
    /\ [][\A b \in Fetches :
             (bpc[b] = "remove" /\ bpc'[b] # "remove")
             => UNCHANGED <<ch, pendingThumbnails, berr, fres, broadcasts>>]_vars

\* C22 amended: when a build run that made a temp file ends, the temp file
\* is gone unless the deferred os.Remove failed, in which case it stays
\* where it is; the removal runs after the broadcast, the run's requester
\* being signaled and out of the list already, and, failed or not, changes
\* no channel, list, error or result.
C22_TempFileGoneUnlessRemoveFails ==
    /\ [][\A b \in Fetches :
             (bpc[b] = "remove" /\ bpc'[b] # "remove")
             => /\ bpc'[b] = "done"
                /\ faults' = faults => fs'[TmpPath(fth[b], b)] = Absent
                /\ faults' # faults => UNCHANGED fs
                /\ UNCHANGED <<ch, pendingThumbnails, berr, fres, broadcasts>>]_vars
    /\ [](\A b \in Fetches :
             (bpc[b] = "done" /\ bdefer[b] /\ faults = 0) => TmpGone(b))
    /\ [](\A b \in Fetches :
             bpc[b] = "remove"
             => /\ bdefer[b]
                /\ ch[b].closed
                /\ b \notin Waiters(pendingThumbnails[RegistryKey(fth[b])]))

\* C22 witness: a run whose resizer failed and a run that installed its
\* file have both ended with their temp files gone, no filesystem call
\* having failed.
C22_Witness ==
    \E a, b \in Fetches :
        /\ a # b
        /\ faults = 0
        /\ bpc[a] = "done" /\ bdefer[a] /\ berr[a] = EResize /\ TmpGone(a)
        /\ bpc[b] = "done" /\ bdefer[b] /\ berr[b] = Nil /\ TmpGone(b)
        /\ fs[VariantPath(fth[b])] # Absent

\* Request f returned from the first os.Open of openThumbnail with the file.
CacheHit(f) == Returned(f) /\ ~ch[f].made /\ fres[f].err = Nil

\* C23: a request whose first os.Open finds the file (and returns no I/O
\* error) returns that file in that step, which leaves the mutex, the
\* waiter lists, the channels, the builds, the files and the directories
\* as they are; a request at its first open does not hold the mutex; and a
\* request that returned on a hit has no channel, is in no waiter list and
\* has started no build.
C23_HitBypassesRegistry ==
    /\ [][\A f \in Fetches :
             (fpc[f] = "open" /\ fpc'[f] # "open" /\ faults' = faults
                /\ fs[VariantPath(fth[f])] # Absent)
             => /\ fpc'[f] = "done"
                /\ fres'[f] = [err |-> Nil, file |-> fs[VariantPath(fth[f])]]
                /\ UNCHANGED <<thumbnailMutex, pendingThumbnails, ch, fs, dirs>>
                /\ UNCHANGED <<buildVars, logVars>>]_vars
    /\ [](\A f \in Fetches :
             fpc[f] = "open" => thumbnailMutex # <<"openThumbnail", f>>)
    /\ [](\A f \in Fetches :
             CacheHit(f)
             => /\ bpc[f] = "none"
                /\ thumbnailMutex # <<"openThumbnail", f>>
                /\ fres[f].file # Absent
                /\ \A k \in Keys : f \notin Waiters(pendingThumbnails[k]))

\* C23 witness: a request has returned the installed file on its first
\* open, with no channel and no build of its own, while the build that
\* installed the file has not yet run its deferred removal.
C23_Witness ==
    \E f, b \in Fetches :
        /\ f # b
        /\ fth[f] = fth[b]
        /\ CacheHit(f)
        /\ bpc[f] = "none"
        /\ fres[f].file = fs[VariantPath(fth[f])]
        /\ bpc[b] = "remove" /\ berr[b] = Nil

\* C24: the loop of sendThumbnailResult never meets a closed channel and
\* never a full one, so no broadcast panics or blocks inside the mutex; a
\* channel in a waiter list is open and empty and is listed once, under
\* its request's key only; a channel out of the lists has been closed; and
\* a closed channel stays closed and gets no further value.
C24_SignaledExactlyOnce ==
    /\ [](~crashed)
    /\ [](\A b \in Fetches :
             bpc[b] = "send"
             => \A g \in Waiters(SendTargets(pendingThumbnails[RegistryKey(fth[b])])) :
                   ~SignalFails(ch[g], berr[b]))
    /\ [](\A k \in Keys : \A i \in 1..Len(pendingThumbnails[k]) :
             LET g == pendingThumbnails[k][i]
             IN  /\ ch[g] = MakeChan
                 /\ RegistryKey(fth[g]) = k
                 /\ \A j \in 1..Len(pendingThumbnails[k]) :
                       pendingThumbnails[k][j] = g => j = i)
    /\ [](\A f \in Fetches :
             (ch[f].made /\ f \notin Waiters(pendingThumbnails[RegistryKey(fth[f])]))
             => ch[f].closed)
    /\ [][\A f \in Fetches :
             ch[f].closed
             => /\ ch'[f].closed
                /\ Len(ch'[f].buf) <= Len(ch[f].buf)]_vars
    /\ [](\A f \in Fetches : Len(ch[f].buf) <= ChanCap)

\* C24 witness: two builds of one key have broadcast one after the other,
\* the first an error and the second success, each to the channel of its
\* own waiter, and nothing panicked or blocked.
C24_Witness ==
    \E a, b \in Fetches :
        /\ a # b
        /\ RegistryKey(fth[a]) = RegistryKey(fth[b])
        /\ broadcasts = 2
        /\ berr[a] = EResize /\ berr[b] = Nil
        /\ Broadcast(a) /\ Broadcast(b)
        /\ ch[a].closed /\ ch[b].closed
        /\ fres[a].err = EResize
        /\ ~crashed

\* The file at the path of th is the output of a resizer invocation on the
\* source of th's key with th's width, height and mode.
ProducedFor(file, th) ==
    /\ file.kind = "img"
    /\ file.src = sourcePath(th.Key)
    /\ file.width = th.Width
    /\ file.height = th.Height
    /\ file.mode = th.Mode

\* C25: in every reachable state a file at the path derived from (key,
\* width, height, mode) is the output of a resizer invocation, of which
\* there was at least one, on the source of that key with that width,
\* height and mode; and a step that puts a file at such a path is the
\* rename of a build of exactly that (key, width, height, mode), moving the
\* temp file its resizer wrote.
C25_FileMatchesItsPath ==
    /\ [](\A th \in ValidThumbs :
             fs[VariantPath(th)] # Absent
             => /\ ProducedFor(fs[VariantPath(th)], th)
                /\ resizeCalls[th] >= 1)
    /\ [][\A th \in ValidThumbs :
             (fs'[VariantPath(th)] # Absent /\ fs'[VariantPath(th)] # fs[VariantPath(th)])
             => \E b \in Fetches :
                   /\ bpc[b] = "rename"
                   /\ fth[b] = th
                   /\ fs'[VariantPath(th)] = fs[TmpPath(th, b)]
                   /\ \A other \in ValidThumbs \ {th} :
                         fs'[VariantPath(other)] = fs[VariantPath(other)]]_vars
    /\ [](\A b \in Fetches :
             bpc[b] \in {"resizing", "rename"}
             => ProducedFor(fs[ResizeDst(fth[b], b)], fth[b]))

\* C25 witness: two variants of one key are installed, each the output of
\* the resizer for its own width and height.
C25_Witness ==
    \E a, b \in ValidThumbs :
        /\ a # b
        /\ a.Key = b.Key
        /\ fs[VariantPath(a)] # Absent /\ ProducedFor(fs[VariantPath(a)], a)
        /\ fs[VariantPath(b)] # Absent /\ ProducedFor(fs[VariantPath(b)], b)
        /\ fs[VariantPath(a)].width # fs[VariantPath(b)].width

\* The PUT goroutines now copying a body into the file of key k.
Copying(k) == {p \in DOMAIN ppc : pkey[p] = k /\ ppc[p] = "copy"}

\* C26: a file at a key's source path is never removed and never gets
\* another body, whatever the PUT that created it answered; the only step
\* that changes it is the creating PUT's copy completing it; a file left
\* incomplete by a failed copy never changes again; every PUT that finds a
\* file at its create answers 500; and a PUT answered 500 with no I/O error
\* anywhere found the key occupied.
C26_CreatedKeyStaysOccupied ==
    /\ [][\A k \in Keys :
             fs[sourcePath(k)] # Absent
             => /\ fs'[sourcePath(k)] # Absent
                /\ fs'[sourcePath(k)].body = fs[sourcePath(k)].body
                /\ fs'[sourcePath(k)] # fs[sourcePath(k)]
                   => \E p \in Copying(k) :
                         /\ pbody[p] = fs[sourcePath(k)].body
                         /\ pres'[p] = 200]_vars
    /\ [][\A k \in Keys :
             (fs[sourcePath(k)] # Absent /\ Copying(k) = {})
             => fs'[sourcePath(k)] = fs[sourcePath(k)]]_vars
    /\ [][\A p \in DOMAIN ppc :
             (ppc[p] = "create" /\ ppc'[p] # "create"
                /\ fs[sourcePath(pkey[p])] # Absent)
             => (ppc'[p] = "done" /\ pres'[p] = 500)]_vars
    /\ [](\A p \in DOMAIN ppc :
             (ppc[p] = "done" /\ pres[p] = 500 /\ faults = 0)
             => fs[sourcePath(pkey[p])] # Absent)

\* C26 witness: a PUT whose copy failed after the create has answered 500,
\* a later PUT of the same key with another body has answered 500 too, and
\* the file still holds the incomplete body of the first.
C26_Witness ==
    \E p, q \in DOMAIN ppc :
        /\ p # q
        /\ pkey[p] = pkey[q]
        /\ pbody[p] # pbody[q]
        /\ ppc[p] = "done" /\ pres[p] = 500
        /\ ppc[q] = "done" /\ pres[q] = 500
        /\ faults = 1
        /\ fs[sourcePath(pkey[p])] = SourceData(pbody[p], FALSE)

\* No handler has run for request h: its goroutine slot is untouched.
Unhandled(h) ==
    IF h[1] = "/thumbnail/"
    THEN /\ fpc[h[2]] = "idle"
         /\ fth[h[2]] = NoThumb
         /\ ~ch[h[2]].made
         /\ bpc[h[2]] = "none"
         /\ \A k \in Keys : h[2] \notin Waiters(pendingThumbnails[k])
    ELSE /\ ppc[h[2]] = "idle"
         /\ pres[h[2]] = 0

\* C27: ServeHTTP answers a request whose Host is not in AllowedHosts with
\* 500 in the step that reads it, which changes no file, directory, waiter
\* list, channel, build or PUT; such a request stays refused and no handler
\* ever runs for it; a handler runs only for a request whose Host is in
\* AllowedHosts; and under the empty AllowedHosts of cmd/space/main.go
\* every request read is refused with 500, no handler runs and no file or
\* directory is made.
C27_ForeignHostIsRefused ==
    /\ [][\A h \in HostRequests :
             (hpc[h] = "idle" /\ hpc'[h] # "idle"
                /\ ~(\E a \in allowedHosts : a = hreq'[h].host))
             => /\ hpc'[h] = "refused"
                /\ hres'[h] = 500
                /\ UNCHANGED <<fs, dirs, pendingThumbnails, thumbnailMutex>>
                /\ UNCHANGED <<fetchVars, buildVars, putVars, logVars>>]_vars
    /\ [][\A h \in HostRequests :
             hpc[h] = "refused" => (hpc'[h] = "refused" /\ hres'[h] = 500)]_vars
    /\ [](\A h \in HostRequests :
             hpc[h] \in {"idle", "refused"} => Unhandled(h))
    /\ [](\A h \in HostRequests :
             ~Unhandled(h) => (hpc[h] = "routed" /\ hreq[h].host \in allowedHosts))
    /\ [](allowedHosts = MainAllowedHosts
             => /\ \A h \in HostRequests :
                      /\ Unhandled(h)
                      /\ hpc[h] \in {"idle", "refused"}
                      /\ hpc[h] = "refused" => hres[h] = 500
                /\ \A p \in AllPaths : fs[p] = Absent
                /\ dirs = {}
                /\ \A k \in Keys : pendingThumbnails[k] = <<>>)

\* C27 witness: under an AllowedHosts that lists one host, a thumbnail
\* request and a PUT with another Host have been refused with 500 and left
\* no trace, while a request with the listed Host waits in the registry
\* for its build.
C27_Witness ==
    \E f, g \in Fetches : \E p \in Puts :
        /\ f # g
        /\ allowedHosts = ServedHosts
        /\ hpc[<<"/thumbnail/", g>>] = "refused" /\ hres[<<"/thumbnail/", g>>] = 500
        /\ hreq[<<"/thumbnail/", g>>].host \notin allowedHosts
        /\ hpc[<<"/source/", p>>] = "refused" /\ hres[<<"/source/", p>>] = 500
        /\ Unhandled(<<"/thumbnail/", g>>) /\ Unhandled(<<"/source/", p>>)
        /\ hpc[<<"/thumbnail/", f>>] = "routed"
        /\ bpc[f] = "statsrc"
        /\ pendingThumbnails[RegistryKey(fth[f])] = <<f>>

====
